---- MODULE Spec2Model ----
(***************************************************************************)
(* A model of code_analyzer.py: the per-line lexical checks of class Line, *)
(* the syntax-tree checks of class ASTNodeAnalyzer, and the per-file       *)
(* analysis of class FileStaticCodeAnalyzer driven by the batch loop of    *)
(* the main block.                                                         *)
(*                                                                         *)
(* Text is modelled as sequences of characters, a character being its     *)
(* code point, so that the regular expressions and the strip calls of the  *)
(* code are computed character by character.                               *)
(***************************************************************************)
EXTENDS Integers, Sequences, FiniteSets, TLC

VARIABLES
    npaths,                \* number of paths get_py_paths yields in this run
    path,                  \* 1-based position of the current path in that sequence
    pc,                    \* lifecycle position of the current file
    run,                   \* "running", "finished" or "aborted" (uncaught exception)
    error,                 \* the exception that left the main block, or "none"
    file_open,             \* TRUE while self.file is an open handle
    text,                  \* the physical lines of the current file, each with its "\n"
    file_pos,              \* number of lines already consumed from self.file
    tree,                  \* the tree returned by ast.parse
    line_index,            \* FileStaticCodeAnalyzer.line_index
    blank_lines_before,    \* FileStaticCodeAnalyzer.blank_lines_before
    lineno_to_issues_map,  \* ASTNodeAnalyzer.lineno_to_issues_map
    output,                \* the diagnostics printed by the current analyzer
    results,               \* per path: "pending", "analyzed" or "failed"
    in_line,               \* argument line of Line(...)
    in_blanks,             \* argument preceding_blank_lines of Line(...)
    line_obj,              \* the constructed Line object
    line_issues            \* the list returned by Line.get_issues

vars == <<npaths, path, pc, run, error, file_open, text, file_pos, tree,
          line_index, blank_lines_before, lineno_to_issues_map, output,
          results, in_line, in_blanks, line_obj, line_issues>>

fileVars == <<npaths, path, pc, run, error, file_open, text, file_pos,
              line_index, blank_lines_before, output, results>>

lineVars == <<in_line, in_blanks, line_obj, line_issues>>

(***************************************************************************)
(* Bounds of the model.                                                    *)
(***************************************************************************)
MaxFiles == 2       \* paths in one batch run
MaxLines == 4       \* physical lines in one file
MaxLen == 4         \* length of the freely enumerated lines
MaxIndent == 5      \* leading spaces of the composed lines
MaxGap == 2         \* spaces between code and comment of the composed lines
MaxBlanks == 3      \* preceding_blank_lines handed to Line(...)
MaxParams == 2      \* positional parameters of one declaration
MaxDefaults == 2    \* default values of one declaration
MaxNest == 600      \* unary operations nested in one expression

(***************************************************************************)
(* Program constants.                                                      *)
(***************************************************************************)
MaxLineLength == 79
IndentUnit == 4
MinCommentSpaces == 2
MaxBlankLines == 2

(***************************************************************************)
(* Characters.  A character is its code point, the value of ord(): the     *)
(* classes \s, \w and \d of a str pattern, str.rstrip() and str.upper()    *)
(* follow the Unicode character database of the interpreter (Python 3.11,  *)
(* Unicode 14.0), and the tables below are taken from it.                  *)
(***************************************************************************)
Range(s) == {s[i] : i \in 1..Len(s)}

\* the printable ASCII characters from the space (32) to the underscore
\* (95) and from a (97) to the tilde (126)
AsciiLow ==
    <<" ", "!", "\"", "#", "$", "%", "&", "'", "(", ")", "*", "+", ",", "-",
     ".", "/", "0", "1", "2", "3", "4", "5", "6", "7", "8", "9", ":", ";",
     "<", "=", ">", "?", "@", "A", "B", "C", "D", "E", "F", "G", "H", "I",
     "J", "K", "L", "M", "N", "O", "P", "Q", "R", "S", "T", "U", "V", "W",
     "X", "Y", "Z", "[", "\\", "]", "^", "_">>
AsciiHigh ==
    <<"a", "b", "c", "d", "e", "f", "g", "h", "i", "j", "k", "l", "m", "n",
     "o", "p", "q", "r", "s", "t", "u", "v", "w", "x", "y", "z", "{", "|",
     "}", "~">>

\* ord(c) of a character written in the model as a one-character string
OrdTable ==
    [c \in Range(AsciiLow) \cup Range(AsciiHigh) \cup {"\t", "\n", "\f", "\r"} |->
        CASE c = "\t" -> 9
          [] c = "\n" -> 10
          [] c = "\f" -> 12
          [] c = "\r" -> 13
          [] c \in Range(AsciiLow) ->
                31 + CHOOSE i \in 1..Len(AsciiLow) : AsciiLow[i] = c
          [] OTHER -> 96 + CHOOSE i \in 1..Len(AsciiHigh) : AsciiHigh[i] = c]

Ord(c) == OrdTable[c]

\* the text whose characters are written one by one
Str(s) == [i \in 1..Len(s) |-> Ord(s[i])]

\* c lies in one of the ranges <<first, last>> of rs
InRanges(c, rs) == \E r \in rs : r[1] <= c /\ c <= r[2]

\* the characters str.rstrip() strips and \s matches: U+0009 .. U+000D,
\* U+001C .. U+0020, U+0085, U+00A0, U+1680, U+2000 .. U+200A, U+2028,
\* U+2029, U+202F, U+205F, U+3000
Whitespace ==
    (9..13) \cup (28..32) \cup {133, 160, 5760} \cup (8192..8202)
    \cup {8232, 8233, 8239, 8287, 12288}

\* the characters beyond ASCII that \d matches (decimal digits), as ranges
DigitRanges ==
    {<<1632, 1641>>, <<1776, 1785>>, <<1984, 1993>>, <<2406, 2415>>,
     <<2534, 2543>>, <<2662, 2671>>, <<2790, 2799>>, <<2918, 2927>>,
     <<3046, 3055>>, <<3174, 3183>>, <<3302, 3311>>, <<3430, 3439>>,
     <<3558, 3567>>, <<3664, 3673>>, <<3792, 3801>>, <<3872, 3881>>,
     <<4160, 4169>>, <<4240, 4249>>, <<6112, 6121>>, <<6160, 6169>>,
     <<6470, 6479>>, <<6608, 6617>>, <<6784, 6793>>, <<6800, 6809>>,
     <<6992, 7001>>, <<7088, 7097>>, <<7232, 7241>>, <<7248, 7257>>,
     <<42528, 42537>>, <<43216, 43225>>, <<43264, 43273>>,
     <<43472, 43481>>, <<43504, 43513>>, <<43600, 43609>>,
     <<44016, 44025>>, <<65296, 65305>>, <<66720, 66729>>,
     <<68912, 68921>>, <<69734, 69743>>, <<69872, 69881>>,
     <<69942, 69951>>, <<70096, 70105>>, <<70384, 70393>>,
     <<70736, 70745>>, <<70864, 70873>>, <<71248, 71257>>,
     <<71360, 71369>>, <<71472, 71481>>, <<71904, 71913>>,
     <<72016, 72025>>, <<72784, 72793>>, <<73040, 73049>>,
     <<73120, 73129>>, <<92768, 92777>>, <<92864, 92873>>,
     <<93008, 93017>>, <<120782, 120831>>, <<123200, 123209>>,
     <<123632, 123641>>, <<125264, 125273>>, <<130032, 130041>>}

\* the characters beyond ASCII that \w matches (letters and numbers), as
\* ranges
WordRanges ==
    {<<170, 170>>, <<178, 179>>, <<181, 181>>, <<185, 186>>, <<188, 190>>,
     <<192, 214>>, <<216, 246>>, <<248, 705>>, <<710, 721>>, <<736, 740>>,
     <<748, 748>>, <<750, 750>>, <<880, 884>>, <<886, 887>>, <<890, 893>>,
     <<895, 895>>, <<902, 902>>, <<904, 906>>, <<908, 908>>, <<910, 929>>,
     <<931, 1013>>, <<1015, 1153>>, <<1162, 1327>>, <<1329, 1366>>,
     <<1369, 1369>>, <<1376, 1416>>, <<1488, 1514>>, <<1519, 1522>>,
     <<1568, 1610>>, <<1632, 1641>>, <<1646, 1647>>, <<1649, 1747>>,
     <<1749, 1749>>, <<1765, 1766>>, <<1774, 1788>>, <<1791, 1791>>,
     <<1808, 1808>>, <<1810, 1839>>, <<1869, 1957>>, <<1969, 1969>>,
     <<1984, 2026>>, <<2036, 2037>>, <<2042, 2042>>, <<2048, 2069>>,
     <<2074, 2074>>, <<2084, 2084>>, <<2088, 2088>>, <<2112, 2136>>,
     <<2144, 2154>>, <<2160, 2183>>, <<2185, 2190>>, <<2208, 2249>>,
     <<2308, 2361>>, <<2365, 2365>>, <<2384, 2384>>, <<2392, 2401>>,
     <<2406, 2415>>, <<2417, 2432>>, <<2437, 2444>>, <<2447, 2448>>,
     <<2451, 2472>>, <<2474, 2480>>, <<2482, 2482>>, <<2486, 2489>>,
     <<2493, 2493>>, <<2510, 2510>>, <<2524, 2525>>, <<2527, 2529>>,
     <<2534, 2545>>, <<2548, 2553>>, <<2556, 2556>>, <<2565, 2570>>,
     <<2575, 2576>>, <<2579, 2600>>, <<2602, 2608>>, <<2610, 2611>>,
     <<2613, 2614>>, <<2616, 2617>>, <<2649, 2652>>, <<2654, 2654>>,
     <<2662, 2671>>, <<2674, 2676>>, <<2693, 2701>>, <<2703, 2705>>,
     <<2707, 2728>>, <<2730, 2736>>, <<2738, 2739>>, <<2741, 2745>>,
     <<2749, 2749>>, <<2768, 2768>>, <<2784, 2785>>, <<2790, 2799>>,
     <<2809, 2809>>, <<2821, 2828>>, <<2831, 2832>>, <<2835, 2856>>,
     <<2858, 2864>>, <<2866, 2867>>, <<2869, 2873>>, <<2877, 2877>>,
     <<2908, 2909>>, <<2911, 2913>>, <<2918, 2927>>, <<2929, 2935>>,
     <<2947, 2947>>, <<2949, 2954>>, <<2958, 2960>>, <<2962, 2965>>,
     <<2969, 2970>>, <<2972, 2972>>, <<2974, 2975>>, <<2979, 2980>>,
     <<2984, 2986>>, <<2990, 3001>>, <<3024, 3024>>, <<3046, 3058>>,
     <<3077, 3084>>, <<3086, 3088>>, <<3090, 3112>>, <<3114, 3129>>,
     <<3133, 3133>>, <<3160, 3162>>, <<3165, 3165>>, <<3168, 3169>>,
     <<3174, 3183>>, <<3192, 3198>>, <<3200, 3200>>, <<3205, 3212>>,
     <<3214, 3216>>, <<3218, 3240>>, <<3242, 3251>>, <<3253, 3257>>,
     <<3261, 3261>>, <<3293, 3294>>, <<3296, 3297>>, <<3302, 3311>>,
     <<3313, 3314>>, <<3332, 3340>>, <<3342, 3344>>, <<3346, 3386>>,
     <<3389, 3389>>, <<3406, 3406>>, <<3412, 3414>>, <<3416, 3425>>,
     <<3430, 3448>>, <<3450, 3455>>, <<3461, 3478>>, <<3482, 3505>>,
     <<3507, 3515>>, <<3517, 3517>>, <<3520, 3526>>, <<3558, 3567>>,
     <<3585, 3632>>, <<3634, 3635>>, <<3648, 3654>>, <<3664, 3673>>,
     <<3713, 3714>>, <<3716, 3716>>, <<3718, 3722>>, <<3724, 3747>>,
     <<3749, 3749>>, <<3751, 3760>>, <<3762, 3763>>, <<3773, 3773>>,
     <<3776, 3780>>, <<3782, 3782>>, <<3792, 3801>>, <<3804, 3807>>,
     <<3840, 3840>>, <<3872, 3891>>, <<3904, 3911>>, <<3913, 3948>>,
     <<3976, 3980>>, <<4096, 4138>>, <<4159, 4169>>, <<4176, 4181>>,
     <<4186, 4189>>, <<4193, 4193>>, <<4197, 4198>>, <<4206, 4208>>,
     <<4213, 4225>>, <<4238, 4238>>, <<4240, 4249>>, <<4256, 4293>>,
     <<4295, 4295>>, <<4301, 4301>>, <<4304, 4346>>, <<4348, 4680>>,
     <<4682, 4685>>, <<4688, 4694>>, <<4696, 4696>>, <<4698, 4701>>,
     <<4704, 4744>>, <<4746, 4749>>, <<4752, 4784>>, <<4786, 4789>>,
     <<4792, 4798>>, <<4800, 4800>>, <<4802, 4805>>, <<4808, 4822>>,
     <<4824, 4880>>, <<4882, 4885>>, <<4888, 4954>>, <<4969, 4988>>,
     <<4992, 5007>>, <<5024, 5109>>, <<5112, 5117>>, <<5121, 5740>>,
     <<5743, 5759>>, <<5761, 5786>>, <<5792, 5866>>, <<5870, 5880>>,
     <<5888, 5905>>, <<5919, 5937>>, <<5952, 5969>>, <<5984, 5996>>,
     <<5998, 6000>>, <<6016, 6067>>, <<6103, 6103>>, <<6108, 6108>>,
     <<6112, 6121>>, <<6128, 6137>>, <<6160, 6169>>, <<6176, 6264>>,
     <<6272, 6276>>, <<6279, 6312>>, <<6314, 6314>>, <<6320, 6389>>,
     <<6400, 6430>>, <<6470, 6509>>, <<6512, 6516>>, <<6528, 6571>>,
     <<6576, 6601>>, <<6608, 6618>>, <<6656, 6678>>, <<6688, 6740>>,
     <<6784, 6793>>, <<6800, 6809>>, <<6823, 6823>>, <<6917, 6963>>,
     <<6981, 6988>>, <<6992, 7001>>, <<7043, 7072>>, <<7086, 7141>>,
     <<7168, 7203>>, <<7232, 7241>>, <<7245, 7293>>, <<7296, 7304>>,
     <<7312, 7354>>, <<7357, 7359>>, <<7401, 7404>>, <<7406, 7411>>,
     <<7413, 7414>>, <<7418, 7418>>, <<7424, 7615>>, <<7680, 7957>>,
     <<7960, 7965>>, <<7968, 8005>>, <<8008, 8013>>, <<8016, 8023>>,
     <<8025, 8025>>, <<8027, 8027>>, <<8029, 8029>>, <<8031, 8061>>,
     <<8064, 8116>>, <<8118, 8124>>, <<8126, 8126>>, <<8130, 8132>>,
     <<8134, 8140>>, <<8144, 8147>>, <<8150, 8155>>, <<8160, 8172>>,
     <<8178, 8180>>, <<8182, 8188>>, <<8304, 8305>>, <<8308, 8313>>,
     <<8319, 8329>>, <<8336, 8348>>, <<8450, 8450>>, <<8455, 8455>>,
     <<8458, 8467>>, <<8469, 8469>>, <<8473, 8477>>, <<8484, 8484>>,
     <<8486, 8486>>, <<8488, 8488>>, <<8490, 8493>>, <<8495, 8505>>,
     <<8508, 8511>>, <<8517, 8521>>, <<8526, 8526>>, <<8528, 8585>>,
     <<9312, 9371>>, <<9450, 9471>>, <<10102, 10131>>, <<11264, 11492>>,
     <<11499, 11502>>, <<11506, 11507>>, <<11517, 11517>>,
     <<11520, 11557>>, <<11559, 11559>>, <<11565, 11565>>,
     <<11568, 11623>>, <<11631, 11631>>, <<11648, 11670>>,
     <<11680, 11686>>, <<11688, 11694>>, <<11696, 11702>>,
     <<11704, 11710>>, <<11712, 11718>>, <<11720, 11726>>,
     <<11728, 11734>>, <<11736, 11742>>, <<11823, 11823>>,
     <<12293, 12295>>, <<12321, 12329>>, <<12337, 12341>>,
     <<12344, 12348>>, <<12353, 12438>>, <<12445, 12447>>,
     <<12449, 12538>>, <<12540, 12543>>, <<12549, 12591>>,
     <<12593, 12686>>, <<12690, 12693>>, <<12704, 12735>>,
     <<12784, 12799>>, <<12832, 12841>>, <<12872, 12879>>,
     <<12881, 12895>>, <<12928, 12937>>, <<12977, 12991>>,
     <<13312, 19903>>, <<19968, 42124>>, <<42192, 42237>>,
     <<42240, 42508>>, <<42512, 42539>>, <<42560, 42606>>,
     <<42623, 42653>>, <<42656, 42735>>, <<42775, 42783>>,
     <<42786, 42888>>, <<42891, 42954>>, <<42960, 42961>>,
     <<42963, 42963>>, <<42965, 42969>>, <<42994, 43009>>,
     <<43011, 43013>>, <<43015, 43018>>, <<43020, 43042>>,
     <<43056, 43061>>, <<43072, 43123>>, <<43138, 43187>>,
     <<43216, 43225>>, <<43250, 43255>>, <<43259, 43259>>,
     <<43261, 43262>>, <<43264, 43301>>, <<43312, 43334>>,
     <<43360, 43388>>, <<43396, 43442>>, <<43471, 43481>>,
     <<43488, 43492>>, <<43494, 43518>>, <<43520, 43560>>,
     <<43584, 43586>>, <<43588, 43595>>, <<43600, 43609>>,
     <<43616, 43638>>, <<43642, 43642>>, <<43646, 43695>>,
     <<43697, 43697>>, <<43701, 43702>>, <<43705, 43709>>,
     <<43712, 43712>>, <<43714, 43714>>, <<43739, 43741>>,
     <<43744, 43754>>, <<43762, 43764>>, <<43777, 43782>>,
     <<43785, 43790>>, <<43793, 43798>>, <<43808, 43814>>,
     <<43816, 43822>>, <<43824, 43866>>, <<43868, 43881>>,
     <<43888, 44002>>, <<44016, 44025>>, <<44032, 55203>>,
     <<55216, 55238>>, <<55243, 55291>>, <<63744, 64109>>,
     <<64112, 64217>>, <<64256, 64262>>, <<64275, 64279>>,
     <<64285, 64285>>, <<64287, 64296>>, <<64298, 64310>>,
     <<64312, 64316>>, <<64318, 64318>>, <<64320, 64321>>,
     <<64323, 64324>>, <<64326, 64433>>, <<64467, 64829>>,
     <<64848, 64911>>, <<64914, 64967>>, <<65008, 65019>>,
     <<65136, 65140>>, <<65142, 65276>>, <<65296, 65305>>,
     <<65313, 65338>>, <<65345, 65370>>, <<65382, 65470>>,
     <<65474, 65479>>, <<65482, 65487>>, <<65490, 65495>>,
     <<65498, 65500>>, <<65536, 65547>>, <<65549, 65574>>,
     <<65576, 65594>>, <<65596, 65597>>, <<65599, 65613>>,
     <<65616, 65629>>, <<65664, 65786>>, <<65799, 65843>>,
     <<65856, 65912>>, <<65930, 65931>>, <<66176, 66204>>,
     <<66208, 66256>>, <<66273, 66299>>, <<66304, 66339>>,
     <<66349, 66378>>, <<66384, 66421>>, <<66432, 66461>>,
     <<66464, 66499>>, <<66504, 66511>>, <<66513, 66517>>,
     <<66560, 66717>>, <<66720, 66729>>, <<66736, 66771>>,
     <<66776, 66811>>, <<66816, 66855>>, <<66864, 66915>>,
     <<66928, 66938>>, <<66940, 66954>>, <<66956, 66962>>,
     <<66964, 66965>>, <<66967, 66977>>, <<66979, 66993>>,
     <<66995, 67001>>, <<67003, 67004>>, <<67072, 67382>>,
     <<67392, 67413>>, <<67424, 67431>>, <<67456, 67461>>,
     <<67463, 67504>>, <<67506, 67514>>, <<67584, 67589>>,
     <<67592, 67592>>, <<67594, 67637>>, <<67639, 67640>>,
     <<67644, 67644>>, <<67647, 67669>>, <<67672, 67702>>,
     <<67705, 67742>>, <<67751, 67759>>, <<67808, 67826>>,
     <<67828, 67829>>, <<67835, 67867>>, <<67872, 67897>>,
     <<67968, 68023>>, <<68028, 68047>>, <<68050, 68096>>,
     <<68112, 68115>>, <<68117, 68119>>, <<68121, 68149>>,
     <<68160, 68168>>, <<68192, 68222>>, <<68224, 68255>>,
     <<68288, 68295>>, <<68297, 68324>>, <<68331, 68335>>,
     <<68352, 68405>>, <<68416, 68437>>, <<68440, 68466>>,
     <<68472, 68497>>, <<68521, 68527>>, <<68608, 68680>>,
     <<68736, 68786>>, <<68800, 68850>>, <<68858, 68899>>,
     <<68912, 68921>>, <<69216, 69246>>, <<69248, 69289>>,
     <<69296, 69297>>, <<69376, 69415>>, <<69424, 69445>>,
     <<69457, 69460>>, <<69488, 69505>>, <<69552, 69579>>,
     <<69600, 69622>>, <<69635, 69687>>, <<69714, 69743>>,
     <<69745, 69746>>, <<69749, 69749>>, <<69763, 69807>>,
     <<69840, 69864>>, <<69872, 69881>>, <<69891, 69926>>,
     <<69942, 69951>>, <<69956, 69956>>, <<69959, 69959>>,
     <<69968, 70002>>, <<70006, 70006>>, <<70019, 70066>>,
     <<70081, 70084>>, <<70096, 70106>>, <<70108, 70108>>,
     <<70113, 70132>>, <<70144, 70161>>, <<70163, 70187>>,
     <<70272, 70278>>, <<70280, 70280>>, <<70282, 70285>>,
     <<70287, 70301>>, <<70303, 70312>>, <<70320, 70366>>,
     <<70384, 70393>>, <<70405, 70412>>, <<70415, 70416>>,
     <<70419, 70440>>, <<70442, 70448>>, <<70450, 70451>>,
     <<70453, 70457>>, <<70461, 70461>>, <<70480, 70480>>,
     <<70493, 70497>>, <<70656, 70708>>, <<70727, 70730>>,
     <<70736, 70745>>, <<70751, 70753>>, <<70784, 70831>>,
     <<70852, 70853>>, <<70855, 70855>>, <<70864, 70873>>,
     <<71040, 71086>>, <<71128, 71131>>, <<71168, 71215>>,
     <<71236, 71236>>, <<71248, 71257>>, <<71296, 71338>>,
     <<71352, 71352>>, <<71360, 71369>>, <<71424, 71450>>,
     <<71472, 71483>>, <<71488, 71494>>, <<71680, 71723>>,
     <<71840, 71922>>, <<71935, 71942>>, <<71945, 71945>>,
     <<71948, 71955>>, <<71957, 71958>>, <<71960, 71983>>,
     <<71999, 71999>>, <<72001, 72001>>, <<72016, 72025>>,
     <<72096, 72103>>, <<72106, 72144>>, <<72161, 72161>>,
     <<72163, 72163>>, <<72192, 72192>>, <<72203, 72242>>,
     <<72250, 72250>>, <<72272, 72272>>, <<72284, 72329>>,
     <<72349, 72349>>, <<72368, 72440>>, <<72704, 72712>>,
     <<72714, 72750>>, <<72768, 72768>>, <<72784, 72812>>,
     <<72818, 72847>>, <<72960, 72966>>, <<72968, 72969>>,
     <<72971, 73008>>, <<73030, 73030>>, <<73040, 73049>>,
     <<73056, 73061>>, <<73063, 73064>>, <<73066, 73097>>,
     <<73112, 73112>>, <<73120, 73129>>, <<73440, 73458>>,
     <<73648, 73648>>, <<73664, 73684>>, <<73728, 74649>>,
     <<74752, 74862>>, <<74880, 75075>>, <<77712, 77808>>,
     <<77824, 78894>>, <<82944, 83526>>, <<92160, 92728>>,
     <<92736, 92766>>, <<92768, 92777>>, <<92784, 92862>>,
     <<92864, 92873>>, <<92880, 92909>>, <<92928, 92975>>,
     <<92992, 92995>>, <<93008, 93017>>, <<93019, 93025>>,
     <<93027, 93047>>, <<93053, 93071>>, <<93760, 93846>>,
     <<93952, 94026>>, <<94032, 94032>>, <<94099, 94111>>,
     <<94176, 94177>>, <<94179, 94179>>, <<94208, 100343>>,
     <<100352, 101589>>, <<101632, 101640>>, <<110576, 110579>>,
     <<110581, 110587>>, <<110589, 110590>>, <<110592, 110882>>,
     <<110928, 110930>>, <<110948, 110951>>, <<110960, 111355>>,
     <<113664, 113770>>, <<113776, 113788>>, <<113792, 113800>>,
     <<113808, 113817>>, <<119520, 119539>>, <<119648, 119672>>,
     <<119808, 119892>>, <<119894, 119964>>, <<119966, 119967>>,
     <<119970, 119970>>, <<119973, 119974>>, <<119977, 119980>>,
     <<119982, 119993>>, <<119995, 119995>>, <<119997, 120003>>,
     <<120005, 120069>>, <<120071, 120074>>, <<120077, 120084>>,
     <<120086, 120092>>, <<120094, 120121>>, <<120123, 120126>>,
     <<120128, 120132>>, <<120134, 120134>>, <<120138, 120144>>,
     <<120146, 120485>>, <<120488, 120512>>, <<120514, 120538>>,
     <<120540, 120570>>, <<120572, 120596>>, <<120598, 120628>>,
     <<120630, 120654>>, <<120656, 120686>>, <<120688, 120712>>,
     <<120714, 120744>>, <<120746, 120770>>, <<120772, 120779>>,
     <<120782, 120831>>, <<122624, 122654>>, <<123136, 123180>>,
     <<123191, 123197>>, <<123200, 123209>>, <<123214, 123214>>,
     <<123536, 123565>>, <<123584, 123627>>, <<123632, 123641>>,
     <<124896, 124902>>, <<124904, 124907>>, <<124909, 124910>>,
     <<124912, 124926>>, <<124928, 125124>>, <<125127, 125135>>,
     <<125184, 125251>>, <<125259, 125259>>, <<125264, 125273>>,
     <<126065, 126123>>, <<126125, 126127>>, <<126129, 126132>>,
     <<126209, 126253>>, <<126255, 126269>>, <<126464, 126467>>,
     <<126469, 126495>>, <<126497, 126498>>, <<126500, 126500>>,
     <<126503, 126503>>, <<126505, 126514>>, <<126516, 126519>>,
     <<126521, 126521>>, <<126523, 126523>>, <<126530, 126530>>,
     <<126535, 126535>>, <<126537, 126537>>, <<126539, 126539>>,
     <<126541, 126543>>, <<126545, 126546>>, <<126548, 126548>>,
     <<126551, 126551>>, <<126553, 126553>>, <<126555, 126555>>,
     <<126557, 126557>>, <<126559, 126559>>, <<126561, 126562>>,
     <<126564, 126564>>, <<126567, 126570>>, <<126572, 126578>>,
     <<126580, 126583>>, <<126585, 126588>>, <<126590, 126590>>,
     <<126592, 126601>>, <<126603, 126619>>, <<126625, 126627>>,
     <<126629, 126633>>, <<126635, 126651>>, <<127232, 127244>>,
     <<130032, 130041>>, <<131072, 173791>>, <<173824, 177976>>,
     <<177984, 178205>>, <<178208, 183969>>, <<183984, 191456>>,
     <<194560, 195101>>, <<196608, 201546>>}

\* the characters beyond ASCII that str.upper() maps to one other
\* character: <<first, last, step, offset>> maps first, first + step, ..
\* up to last to the character offset further on
UpperRanges ==
    {<<181, 181, 1, 743>>, <<224, 246, 1, -32>>, <<248, 254, 1, -32>>,
     <<255, 255, 1, 121>>, <<257, 303, 2, -1>>, <<305, 305, 1, -232>>,
     <<307, 311, 2, -1>>, <<314, 328, 2, -1>>, <<331, 375, 2, -1>>,
     <<378, 382, 2, -1>>, <<383, 383, 1, -300>>, <<384, 384, 1, 195>>,
     <<387, 389, 2, -1>>, <<392, 392, 1, -1>>, <<396, 396, 1, -1>>,
     <<402, 402, 1, -1>>, <<405, 405, 1, 97>>, <<409, 409, 1, -1>>,
     <<410, 410, 1, 163>>, <<414, 414, 1, 130>>, <<417, 421, 2, -1>>,
     <<424, 424, 1, -1>>, <<429, 429, 1, -1>>, <<432, 432, 1, -1>>,
     <<436, 438, 2, -1>>, <<441, 441, 1, -1>>, <<445, 445, 1, -1>>,
     <<447, 447, 1, 56>>, <<453, 453, 1, -1>>, <<454, 454, 1, -2>>,
     <<456, 456, 1, -1>>, <<457, 457, 1, -2>>, <<459, 459, 1, -1>>,
     <<460, 460, 1, -2>>, <<462, 476, 2, -1>>, <<477, 477, 1, -79>>,
     <<479, 495, 2, -1>>, <<498, 498, 1, -1>>, <<499, 499, 1, -2>>,
     <<501, 501, 1, -1>>, <<505, 543, 2, -1>>, <<547, 563, 2, -1>>,
     <<572, 572, 1, -1>>, <<575, 576, 1, 10815>>, <<578, 578, 1, -1>>,
     <<583, 591, 2, -1>>, <<592, 592, 1, 10783>>, <<593, 593, 1, 10780>>,
     <<594, 594, 1, 10782>>, <<595, 595, 1, -210>>, <<596, 596, 1, -206>>,
     <<598, 599, 1, -205>>, <<601, 601, 1, -202>>, <<603, 603, 1, -203>>,
     <<604, 604, 1, 42319>>, <<608, 608, 1, -205>>, <<609, 609, 1, 42315>>,
     <<611, 611, 1, -207>>, <<613, 613, 1, 42280>>, <<614, 614, 1, 42308>>,
     <<616, 616, 1, -209>>, <<617, 617, 1, -211>>, <<618, 618, 1, 42308>>,
     <<619, 619, 1, 10743>>, <<620, 620, 1, 42305>>, <<623, 623, 1, -211>>,
     <<625, 625, 1, 10749>>, <<626, 626, 1, -213>>, <<629, 629, 1, -214>>,
     <<637, 637, 1, 10727>>, <<640, 640, 1, -218>>, <<642, 642, 1, 42307>>,
     <<643, 643, 1, -218>>, <<647, 647, 1, 42282>>, <<648, 648, 1, -218>>,
     <<649, 649, 1, -69>>, <<650, 651, 1, -217>>, <<652, 652, 1, -71>>,
     <<658, 658, 1, -219>>, <<669, 669, 1, 42261>>, <<670, 670, 1, 42258>>,
     <<837, 837, 1, 84>>, <<881, 883, 2, -1>>, <<887, 887, 1, -1>>,
     <<891, 893, 1, 130>>, <<940, 940, 1, -38>>, <<941, 943, 1, -37>>,
     <<945, 961, 1, -32>>, <<962, 962, 1, -31>>, <<963, 971, 1, -32>>,
     <<972, 972, 1, -64>>, <<973, 974, 1, -63>>, <<976, 976, 1, -62>>,
     <<977, 977, 1, -57>>, <<981, 981, 1, -47>>, <<982, 982, 1, -54>>,
     <<983, 983, 1, -8>>, <<985, 1007, 2, -1>>, <<1008, 1008, 1, -86>>,
     <<1009, 1009, 1, -80>>, <<1010, 1010, 1, 7>>, <<1011, 1011, 1, -116>>,
     <<1013, 1013, 1, -96>>, <<1016, 1016, 1, -1>>, <<1019, 1019, 1, -1>>,
     <<1072, 1103, 1, -32>>, <<1104, 1119, 1, -80>>, <<1121, 1153, 2, -1>>,
     <<1163, 1215, 2, -1>>, <<1218, 1230, 2, -1>>, <<1231, 1231, 1, -15>>,
     <<1233, 1327, 2, -1>>, <<1377, 1414, 1, -48>>,
     <<4304, 4346, 1, 3008>>, <<4349, 4351, 1, 3008>>,
     <<5112, 5117, 1, -8>>, <<7296, 7296, 1, -6254>>,
     <<7297, 7297, 1, -6253>>, <<7298, 7298, 1, -6244>>,
     <<7299, 7300, 1, -6242>>, <<7301, 7301, 1, -6243>>,
     <<7302, 7302, 1, -6236>>, <<7303, 7303, 1, -6181>>,
     <<7304, 7304, 1, 35266>>, <<7545, 7545, 1, 35332>>,
     <<7549, 7549, 1, 3814>>, <<7566, 7566, 1, 35384>>,
     <<7681, 7829, 2, -1>>, <<7835, 7835, 1, -59>>, <<7841, 7935, 2, -1>>,
     <<7936, 7943, 1, 8>>, <<7952, 7957, 1, 8>>, <<7968, 7975, 1, 8>>,
     <<7984, 7991, 1, 8>>, <<8000, 8005, 1, 8>>, <<8017, 8023, 2, 8>>,
     <<8032, 8039, 1, 8>>, <<8048, 8049, 1, 74>>, <<8050, 8053, 1, 86>>,
     <<8054, 8055, 1, 100>>, <<8056, 8057, 1, 128>>,
     <<8058, 8059, 1, 112>>, <<8060, 8061, 1, 126>>, <<8112, 8113, 1, 8>>,
     <<8126, 8126, 1, -7205>>, <<8144, 8145, 1, 8>>, <<8160, 8161, 1, 8>>,
     <<8165, 8165, 1, 7>>, <<8526, 8526, 1, -28>>, <<8560, 8575, 1, -16>>,
     <<8580, 8580, 1, -1>>, <<9424, 9449, 1, -26>>,
     <<11312, 11359, 1, -48>>, <<11361, 11361, 1, -1>>,
     <<11365, 11365, 1, -10795>>, <<11366, 11366, 1, -10792>>,
     <<11368, 11372, 2, -1>>, <<11379, 11379, 1, -1>>,
     <<11382, 11382, 1, -1>>, <<11393, 11491, 2, -1>>,
     <<11500, 11502, 2, -1>>, <<11507, 11507, 1, -1>>,
     <<11520, 11557, 1, -7264>>, <<11559, 11559, 1, -7264>>,
     <<11565, 11565, 1, -7264>>, <<42561, 42605, 2, -1>>,
     <<42625, 42651, 2, -1>>, <<42787, 42799, 2, -1>>,
     <<42803, 42863, 2, -1>>, <<42874, 42876, 2, -1>>,
     <<42879, 42887, 2, -1>>, <<42892, 42892, 1, -1>>,
     <<42897, 42899, 2, -1>>, <<42900, 42900, 1, 48>>,
     <<42903, 42921, 2, -1>>, <<42933, 42947, 2, -1>>,
     <<42952, 42954, 2, -1>>, <<42961, 42961, 1, -1>>,
     <<42967, 42969, 2, -1>>, <<42998, 42998, 1, -1>>,
     <<43859, 43859, 1, -928>>, <<43888, 43967, 1, -38864>>,
     <<65345, 65370, 1, -32>>, <<66600, 66639, 1, -40>>,
     <<66776, 66811, 1, -40>>, <<66967, 67003, 2, -39>>,
     <<66968, 66976, 2, -39>>, <<66980, 66992, 2, -39>>,
     <<66996, 67000, 2, -39>>, <<67004, 67004, 1, -39>>,
     <<68800, 68850, 1, -64>>, <<71872, 71903, 1, -32>>,
     <<93792, 93823, 1, -32>>, <<125218, 125251, 1, -34>>}

\* the characters that str.upper() maps to more than one character
UpperSpecial ==
    {<<223, <<83, 83>>>>, <<329, <<700, 78>>>>, <<496, <<74, 780>>>>,
     <<912, <<921, 776, 769>>>>, <<944, <<933, 776, 769>>>>,
     <<1415, <<1333, 1362>>>>, <<7830, <<72, 817>>>>,
     <<7831, <<84, 776>>>>, <<7832, <<87, 778>>>>, <<7833, <<89, 778>>>>,
     <<7834, <<65, 702>>>>, <<8016, <<933, 787>>>>,
     <<8018, <<933, 787, 768>>>>, <<8020, <<933, 787, 769>>>>,
     <<8022, <<933, 787, 834>>>>, <<8064, <<7944, 921>>>>,
     <<8065, <<7945, 921>>>>, <<8066, <<7946, 921>>>>,
     <<8067, <<7947, 921>>>>, <<8068, <<7948, 921>>>>,
     <<8069, <<7949, 921>>>>, <<8070, <<7950, 921>>>>,
     <<8071, <<7951, 921>>>>, <<8072, <<7944, 921>>>>,
     <<8073, <<7945, 921>>>>, <<8074, <<7946, 921>>>>,
     <<8075, <<7947, 921>>>>, <<8076, <<7948, 921>>>>,
     <<8077, <<7949, 921>>>>, <<8078, <<7950, 921>>>>,
     <<8079, <<7951, 921>>>>, <<8080, <<7976, 921>>>>,
     <<8081, <<7977, 921>>>>, <<8082, <<7978, 921>>>>,
     <<8083, <<7979, 921>>>>, <<8084, <<7980, 921>>>>,
     <<8085, <<7981, 921>>>>, <<8086, <<7982, 921>>>>,
     <<8087, <<7983, 921>>>>, <<8088, <<7976, 921>>>>,
     <<8089, <<7977, 921>>>>, <<8090, <<7978, 921>>>>,
     <<8091, <<7979, 921>>>>, <<8092, <<7980, 921>>>>,
     <<8093, <<7981, 921>>>>, <<8094, <<7982, 921>>>>,
     <<8095, <<7983, 921>>>>, <<8096, <<8040, 921>>>>,
     <<8097, <<8041, 921>>>>, <<8098, <<8042, 921>>>>,
     <<8099, <<8043, 921>>>>, <<8100, <<8044, 921>>>>,
     <<8101, <<8045, 921>>>>, <<8102, <<8046, 921>>>>,
     <<8103, <<8047, 921>>>>, <<8104, <<8040, 921>>>>,
     <<8105, <<8041, 921>>>>, <<8106, <<8042, 921>>>>,
     <<8107, <<8043, 921>>>>, <<8108, <<8044, 921>>>>,
     <<8109, <<8045, 921>>>>, <<8110, <<8046, 921>>>>,
     <<8111, <<8047, 921>>>>, <<8114, <<8122, 921>>>>,
     <<8115, <<913, 921>>>>, <<8116, <<902, 921>>>>,
     <<8118, <<913, 834>>>>, <<8119, <<913, 834, 921>>>>,
     <<8124, <<913, 921>>>>, <<8130, <<8138, 921>>>>,
     <<8131, <<919, 921>>>>, <<8132, <<905, 921>>>>,
     <<8134, <<919, 834>>>>, <<8135, <<919, 834, 921>>>>,
     <<8140, <<919, 921>>>>, <<8146, <<921, 776, 768>>>>,
     <<8147, <<921, 776, 769>>>>, <<8150, <<921, 834>>>>,
     <<8151, <<921, 776, 834>>>>, <<8162, <<933, 776, 768>>>>,
     <<8163, <<933, 776, 769>>>>, <<8164, <<929, 787>>>>,
     <<8166, <<933, 834>>>>, <<8167, <<933, 776, 834>>>>,
     <<8178, <<8186, 921>>>>, <<8179, <<937, 921>>>>,
     <<8180, <<911, 921>>>>, <<8182, <<937, 834>>>>,
     <<8183, <<937, 834, 921>>>>, <<8188, <<937, 921>>>>,
     <<64256, <<70, 70>>>>, <<64257, <<70, 73>>>>, <<64258, <<70, 76>>>>,
     <<64259, <<70, 70, 73>>>>, <<64260, <<70, 70, 76>>>>,
     <<64261, <<83, 84>>>>, <<64262, <<83, 84>>>>,
     <<64275, <<1348, 1350>>>>, <<64276, <<1348, 1333>>>>,
     <<64277, <<1348, 1339>>>>, <<64278, <<1358, 1350>>>>,
     <<64279, <<1348, 1341>>>>}

IsLower(c) == Ord("a") <= c /\ c <= Ord("z")
IsUpper(c) == Ord("A") <= c /\ c <= Ord("Z")
IsAscii(c) == c <= 127
IsDigit(c) ==
    IF IsAscii(c) THEN Ord("0") <= c /\ c <= Ord("9")
    ELSE InRanges(c, DigitRanges)
IsWord(c) ==
    IF IsAscii(c) THEN IsLower(c) \/ IsUpper(c) \/ IsDigit(c) \/ c = Ord("_")
    ELSE InRanges(c, WordRanges)
IsSpace(c) == c \in Whitespace

\* str.upper on one character: the characters it becomes
Upper(c) ==
    IF IsAscii(c) THEN <<IF IsLower(c) THEN c - Ord("a") + Ord("A") ELSE c>>
    ELSE IF \E p \in UpperSpecial : p[1] = c
    THEN (CHOOSE p \in UpperSpecial : p[1] = c)[2]
    ELSE IF \E r \in UpperRanges :
               r[1] <= c /\ c <= r[2] /\ (c - r[1]) % r[3] = 0
    THEN <<c + (CHOOSE r \in UpperRanges :
                   r[1] <= c /\ c <= r[2] /\ (c - r[1]) % r[3] = 0)[4]>>
    ELSE <<c>>

RECURSIVE Concat(_)
Concat(ss) == IF ss = <<>> THEN <<>> ELSE Head(ss) \o Concat(Tail(ss))

\* str.upper: the upper-cased characters one after the other
UpperStr(s) ==
    LET ups == [i \in 1..Len(s) |-> Upper(s[i])]
    IN IF \A i \in 1..Len(s) : Len(ups[i]) = 1
       THEN [i \in 1..Len(s) |-> ups[i][1]]
       ELSE Concat(ups)

\* str.rstrip(chars): drops the longest suffix made of characters of chars
RStripChars(s, chars) ==
    LET keep == CHOOSE i \in 0..Len(s) :
                    /\ \A j \in (i+1)..Len(s) : s[j] \in chars
                    /\ (i > 0 => s[i] \notin chars)
    IN SubSeq(s, 1, keep)

\* str.rstrip(): drops trailing whitespace
RStrip(s) == RStripChars(s, Whitespace)

\* sub in s
Contains(s, sub) ==
    \E i \in 1..(Len(s) - Len(sub) + 1) : SubSeq(s, i, i + Len(sub) - 1) = sub

EndsWith(s, c) == Len(s) > 0 /\ s[Len(s)] = c

Min(S) == CHOOSE x \in S : \A y \in S : x <= y

(***************************************************************************)
(* Issues.  A message is a code and the text interpolated into it.         *)
(***************************************************************************)
Issue(code, arg) == [code |-> code, arg |-> arg]
None == Issue("None", <<>>)

\* list(filter(bool, xs))
FilterIssues(xs) == SelectSeq(xs, LAMBDA x : x # None)

KwDef == Str(<<"d","e","f">>)
KwClass == Str(<<"c","l","a","s","s">>)
Todo == Str(<<"T","O","D","O">>)

\* The texts of the messages, as the code writes them.
TextS001 ==
    Str(<<"S", "0", "0", "1", " ", "T", "o", "o", " ", "l", "o", "n", "g">>)
TextS002 ==
    Str(<<"S", "0", "0", "2", " ", "I", "n", "d", "e", "n", "t", "a", "t", "i",
          "o", "n", " ", "i", "s", " ", "n", "o", "t", " ", "a", " ", "m", "u",
          "l", "t", "i", "p", "l", "e", " ", "o", "f", " ", "f", "o", "u", "r">>)
TextS003 ==
    Str(<<"S", "0", "0", "3", " ", "U", "n", "n", "e", "c", "e", "s", "s", "a",
          "r", "y", " ", "s", "e", "m", "i", "c", "o", "l", "o", "n">>)
TextS004 ==
    Str(<<"S", "0", "0", "4", " ", "A", "t", " ", "l", "e", "a", "s", "t", " ",
          "t", "w", "o", " ", "s", "p", "a", "c", "e", "s", " ", "r", "e", "q",
          "u", "i", "r", "e", "d", " ", "b", "e", "f", "o", "r", "e", " ", "i",
          "n", "l", "i", "n", "e", " ", "c", "o", "m", "m", "e", "n", "t", "s">>)
TextS005 ==
    Str(<<"S", "0", "0", "5", " ", "T", "O", "D", "O", " ", "f", "o", "u", "n",
          "d">>)
TextS006 ==
    Str(<<"S", "0", "0", "6", " ", "M", "o", "r", "e", " ", "t", "h", "a", "n",
          " ", "t", "w", "o", " ", "b", "l", "a", "n", "k", " ", "l", "i", "n",
          "e", "s", " ", "u", "s", "e", "d", " ", "b", "e", "f", "o", "r", "e",
          " ", "t", "h", "i", "s", " ", "l", "i", "n", "e">>)
TextS007 ==
    Str(<<"S", "0", "0", "7", " ", "T", "o", "o", " ", "m", "a", "n", "y", " ",
          "s", "p", "a", "c", "e", "s", " ", "a", "f", "t", "e", "r", " ">>)
TextS008 ==
    Str(<<"S", "0", "0", "8", " ", "C", "l", "a", "s", "s", " ", "n", "a", "m",
          "e", " ">>)
TextS009 ==
    Str(<<"S", "0", "0", "9", " ", "F", "u", "n", "c", "t", "i", "o", "n", " ",
          "n", "a", "m", "e", " ">>)
TextS010 ==
    Str(<<"S", "0", "1", "0", " ", "A", "r", "g", "u", "m", "e", "n", "t", " ",
          "n", "a", "m", "e", " ">>)
TextS011 ==
    Str(<<"S", "0", "1", "1", " ", "V", "a", "r", "i", "a", "b", "l", "e", " ">>)
TextS012 ==
    Str(<<"S", "0", "1", "2", " ", "T", "h", "e", " ", "d", "e", "f", "a", "u",
          "l", "t", " ", "a", "r", "g", "u", "m", "e", "n", "t", " ", "v", "a",
          "l", "u", "e", " ", "i", "s", " ", "m", "u", "t", "a", "b", "l", "e">>)
UseCamelCase ==
    Str(<<" ", "s", "h", "o", "u", "l", "d", " ", "u", "s", "e", " ", "C", "a",
          "m", "e", "l", "C", "a", "s", "e">>)
UseSnakeCase ==
    Str(<<" ", "s", "h", "o", "u", "l", "d", " ", "u", "s", "e", " ", "s", "n",
          "a", "k", "e", "_", "c", "a", "s", "e">>)
BeSnakeCase ==
    Str(<<" ", "s", "h", "o", "u", "l", "d", " ", "b", "e", " ", "s", "n", "a",
          "k", "e", "_", "c", "a", "s", "e">>)

\* the string an issue is: its text with the interpolated name in place
Message(issue) ==
    CASE issue.code = "S001" -> TextS001
      [] issue.code = "S002" -> TextS002
      [] issue.code = "S003" -> TextS003
      [] issue.code = "S004" -> TextS004
      [] issue.code = "S005" -> TextS005
      [] issue.code = "S006" -> TextS006
      [] issue.code = "S007" -> TextS007 \o issue.arg
      [] issue.code = "S008" -> TextS008 \o issue.arg \o UseCamelCase
      [] issue.code = "S009" -> TextS009 \o issue.arg \o UseSnakeCase
      [] issue.code = "S010" -> TextS010 \o issue.arg \o BeSnakeCase
      [] issue.code = "S011" -> TextS011 \o issue.arg \o BeSnakeCase
      [] issue.code = "S012" -> TextS012

\* str.replace(old, new): every occurrence of old, leftmost first and not
\* overlapping, becomes new
RECURSIVE Replace(_, _, _)
Replace(s, old, new) ==
    IF Len(s) < Len(old) THEN s
    ELSE IF SubSeq(s, 1, Len(old)) = old
         THEN new \o Replace(SubSeq(s, Len(old) + 1, Len(s)), old, new)
         ELSE <<s[1]>> \o Replace(Tail(s), old, new)

(***************************************************************************)
(* class Line                                                              *)
(***************************************************************************)

\* re.match(r'^( )*', line): the number of leading space characters
get_indentation(line) ==
    Min({i \in 0..Len(line) : i = Len(line) \/ line[i+1] # Ord(" ")})

\* re.search(r"""(?<!')(?<!")#(.*)""", line): position of the leftmost '#'
\* that does not directly follow a quote character; 0 when there is none
CommentMatch(line) ==
    LET hits == {i \in 1..Len(line) :
                    /\ line[i] = Ord("#")
                    /\ (i > 1 => line[i-1] \notin {Ord("'"), Ord("\"")})}
    IN IF hits = {} THEN 0 ELSE Min(hits)

\* The end of that match: '.' matches every character but the line feed, so
\* (.*) runs up to the first "\n" after the marker, or to the end of the text.
CommentEnd(line, m) ==
    Min({j \in m..Len(line) : j = Len(line) \/ line[j+1] = Ord("\n")})

split_line_to_code_comment(line) ==
    LET m == CommentMatch(line)
        \* comment_match.group()
        comment_part ==
            IF m = 0 THEN <<>> ELSE SubSeq(line, m, CommentEnd(line, m))
        \* line.rstrip(comment_part) takes comment_part as a set of characters
        code_part == RStrip(RStripChars(line, Range(comment_part)))
        spaces_between_code_comment ==
            Len(line) - Len(code_part) - Len(comment_part)
    IN <<code_part, comment_part, spaces_between_code_comment>>

\* Line.__init__
Line(line, line_index_, preceding_blank_lines) ==
    LET parts == split_line_to_code_comment(line)
    IN [line |-> line,
        line_index |-> line_index_,
        preceding_blank_lines |-> preceding_blank_lines,
        length |-> Len(line),
        indentation |-> get_indentation(line),
        code_part |-> parts[1],
        comment_part |-> parts[2],
        code_comment_spaces |-> parts[3]]

invalid_length(self) ==
    IF self.length > MaxLineLength THEN Issue("S001", <<>>) ELSE None

invalid_indentation(self) ==
    IF self.indentation % IndentUnit # 0 THEN Issue("S002", <<>>) ELSE None

ends_with_semicolon(self) ==
    IF EndsWith(RStrip(self.code_part), Ord(";")) THEN Issue("S003", <<>>) ELSE None

invalid_inline_comment_spacing(self) ==
    IF /\ self.code_part # <<>>
       /\ self.comment_part # <<>>
       /\ self.code_comment_spaces < MinCommentSpaces
    THEN Issue("S004", <<>>) ELSE None

todo_in_comment(self) ==
    IF Contains(UpperStr(self.comment_part), Todo)
    THEN Issue("S005", <<>>) ELSE None

invalid_preceding_blanklines(self) ==
    IF self.preceding_blank_lines > MaxBlankLines
    THEN Issue("S006", <<>>) ELSE None

\* The match of (def|class)\s+(\w+) that starts at position i with keyword
\* kw: the keyword, then the whole run of whitespace after it (one
\* character at least), then a word character.  The value is the length of
\* the whitespace run, 0 when there is no match at i.
KeywordMatchAt(code, i, kw) ==
    LET after == i + Len(kw)
        ws == Min({k \in 0..(Len(code) - after + 1) :
                     after + k > Len(code) \/ ~IsSpace(code[after + k])})
    IN IF /\ after - 1 <= Len(code)
          /\ SubSeq(code, i, after - 1) = kw
          /\ ws >= 1
          /\ after + ws <= Len(code)
          /\ IsWord(code[after + ws])
       THEN ws ELSE 0

\* re.search(r'(def|class)\s+(\w+)', code): the leftmost match, as
\* <<construct, number of whitespace characters>>; <<>> when none
KeywordSearch(code) ==
    LET hits == {i \in 1..Len(code) :
                    \/ KeywordMatchAt(code, i, KwDef) > 0
                    \/ KeywordMatchAt(code, i, KwClass) > 0}
    IN IF hits = {} THEN <<>>
       ELSE LET i == Min(hits)
            IN IF KeywordMatchAt(code, i, KwDef) > 0
               THEN <<KwDef, KeywordMatchAt(code, i, KwDef)>>
               ELSE <<KwClass, KeywordMatchAt(code, i, KwClass)>>

invalid_spaces_def_class_construction(self) ==
    LET match == KeywordSearch(self.code_part)
    IN IF match # <<>> /\ match[2] > 1
       THEN Issue("S007", match[1]) ELSE None

AllChecks(self) ==
    <<invalid_length(self),
      invalid_indentation(self),
      ends_with_semicolon(self),
      invalid_inline_comment_spacing(self),
      todo_in_comment(self),
      invalid_preceding_blanklines(self),
      invalid_spaces_def_class_construction(self)>>

get_issues(self) == FilterIssues(AllChecks(self))

(***************************************************************************)
(* Syntax trees.  A node carries its kind, its line (0 for the kinds that  *)
(* have none), the fields the analyzer reads, and body, its child nodes in *)
(* the order ast.iter_child_nodes yields them.  The fields read are name   *)
(* (the name of a declaration, the id of a Name, the arg of an arg), ctx,  *)
(* and for a function args.posonlyargs and args.args (each an arg with its *)
(* name and its own line) and the kinds of the expressions of              *)
(* args.defaults.  A function, declared with def or with async def, also   *)
(* carries args.kwonlyargs and the kinds of args.kw_defaults, "None" for a *)
(* keyword-only parameter without default: the analyzer reads neither.     *)
(* reps is 1, but for a UnaryOp, where it is the number of UnaryOp nodes   *)
(* nested directly in one another that the node stands for: its body is    *)
(* the operator and the operand of the innermost one.  The analyzer        *)
(* records nothing for a UnaryOp; the nesting counts for the depth of the  *)
(* walk only.                                                              *)
(***************************************************************************)
Node(kind, lineno, name, ctx, posonlyargs, args, defaults, body) ==
    [kind |-> kind, lineno |-> lineno, name |-> name, ctx |-> ctx,
     posonlyargs |-> posonlyargs, args |-> args, defaults |-> defaults,
     kwonlyargs |-> <<>>, kw_defaults |-> <<>>,
     body |-> body, reps |-> 1]

\* a node without fields: Load, Store, USub
Leaf(kind) == Node(kind, 0, <<>>, "", <<>>, <<>>, <<>>, <<>>)
Pass(lineno) == Node("Pass", lineno, <<>>, "", <<>>, <<>>, <<>>, <<>>)
Constant(lineno) == Node("Constant", lineno, <<>>, "", <<>>, <<>>, <<>>, <<>>)

Arg(arg, lineno) == [arg |-> arg, lineno |-> lineno]
Name(id, ctx, lineno) ==
    Node("Name", lineno, id, ctx, <<>>, <<>>, <<>>, <<Leaf(ctx)>>)
\* reps unary minus signs in front of operand
UnaryOps(reps, operand, lineno) ==
    [Node("UnaryOp", lineno, <<>>, "", <<>>, <<>>, <<>>,
          <<Leaf("USub"), operand>>) EXCEPT !.reps = reps]
Assign(targets, value, lineno) ==
    Node("Assign", lineno, <<>>, "", <<>>, <<>>, <<>>, targets \o <<value>>)
ExprStmt(value, lineno) ==
    Node("Expr", lineno, <<>>, "", <<>>, <<>>, <<>>, <<value>>)
ClassDef(name, body, lineno) ==
    Node("ClassDef", lineno, name, "", <<>>, <<>>, <<>>, body)

\* the expression of a default value: 1, {}, [] or {1}
DefaultNode(kind, lineno) ==
    CASE kind = "List" ->
            Node("List", lineno, <<>>, "", <<>>, <<>>, <<>>, <<Leaf("Load")>>)
      [] kind = "Set" ->
            Node("Set", lineno, <<>>, "", <<>>, <<>>, <<>>, <<Constant(lineno)>>)
      [] OTHER -> Node(kind, lineno, <<>>, "", <<>>, <<>>, <<>>, <<>>)

\* the arguments node of a function: its children are the arg nodes
\* (positional-only, positional, keyword-only), then the default
\* expressions of the keyword-only parameters that have one, then those of
\* the positional parameters, which belong to the last of them.  A default
\* is written on the line of its parameter.
Arguments(posonlyargs, args, kwonlyargs, kw_defaults, defaults) ==
    LET ps == posonlyargs \o args
        all == ps \o kwonlyargs
        kws == SelectSeq([j \in 1..Len(kw_defaults) |-> j],
                         LAMBDA j : kw_defaults[j] # "None")
        first == Len(ps) - Len(defaults)
    IN Node("arguments", 0, <<>>, "", <<>>, <<>>, <<>>,
            [i \in 1..Len(all) |->
                Node("arg", all[i].lineno, all[i].arg, "", <<>>, <<>>, <<>>, <<>>)]
            \o [i \in 1..Len(kws) |->
                   DefaultNode(kw_defaults[kws[i]], kwonlyargs[kws[i]].lineno)]
            \o [i \in 1..Len(defaults) |->
                   DefaultNode(defaults[i], ps[first + i].lineno)])

\* a function declared with def (kind FunctionDef) or with async def (kind
\* AsyncFunctionDef)
Function(kind, name, posonlyargs, args, kwonlyargs, kw_defaults, defaults, body, lineno) ==
    [Node(kind, lineno, name, "", posonlyargs, args, defaults,
          <<Arguments(posonlyargs, args, kwonlyargs, kw_defaults,
                      defaults)>> \o body)
        EXCEPT !.kwonlyargs = kwonlyargs, !.kw_defaults = kw_defaults]

FunctionDef(name, posonlyargs, args, defaults, body, lineno) ==
    Function("FunctionDef", name, posonlyargs, args, <<>>, <<>>, defaults,
             body, lineno)
Module(body) == Node("Module", 0, <<>>, "", <<>>, <<>>, <<>>, body)

iter_child_nodes(node) == node.body

\* ast.walk: breadth-first, the node itself first
RECURSIVE WalkQueue(_)
WalkQueue(todo) ==
    IF todo = <<>> THEN <<>>
    ELSE <<Head(todo)>> \o WalkQueue(Tail(todo) \o iter_child_nodes(Head(todo)))

walk(node) == WalkQueue(<<node>>)

(***************************************************************************)
(* class ASTNodeAnalyzer                                                   *)
(***************************************************************************)
\* lineno_to_issues_map is a dict: its entries, a line number with the list
\* of that line's messages, in the order the keys were inserted
EmptyMap == <<>>
Keys(map) == {map[i].lineno : i \in 1..Len(map)}
NoName == <<>>

\* re.match(r'^([A-Z]+[a-z]*)+', name): some prefix of name is a run of
\* letters that starts with a capital
is_camelcase(name) ==
    \E k \in 1..Len(name) :
        /\ IsUpper(name[1])
        /\ \A i \in 1..k : IsUpper(name[i]) \/ IsLower(name[i])

\* re.match(r'^[a-z_]+[\da-z_]*', name): some prefix of name starts with a
\* lower-case letter or underscore and goes on with those or digits
is_snakecase(name) ==
    \E k \in 1..Len(name) :
        /\ IsLower(name[1]) \/ name[1] = Ord("_")
        /\ \A i \in 1..k : IsLower(name[i]) \/ name[i] = Ord("_") \/ IsDigit(name[i])

invalid_classname(classname) ==
    IF ~is_camelcase(classname) THEN Issue("S008", classname) ELSE None

invalid_function_name(function_name) ==
    IF ~is_snakecase(function_name) THEN Issue("S009", function_name) ELSE None

invalid_arg_var_names(arg_name, var_name) ==
    IF arg_name # NoName /\ ~is_snakecase(arg_name)
    THEN Issue("S010", arg_name)
    ELSE IF var_name # NoName /\ ~is_snakecase(var_name)
         THEN Issue("S011", var_name)
         ELSE None

MutableKinds == {"Dict", "List", "Set"}

is_mutable(items) ==
    IF \E i \in 1..Len(items) : items[i] \in MutableKinds
    THEN Issue("S012", <<>>) ELSE None

\* setdefault(lineno, []).append(issue), for an issue that is not None
add_issue_to_list(map, lineno, issue) ==
    IF issue = None THEN map
    ELSE IF lineno \in Keys(map)
         THEN [i \in 1..Len(map) |->
                  IF map[i].lineno = lineno
                  THEN [map[i] EXCEPT !.msgs = Append(@, issue)]
                  ELSE map[i]]
         ELSE Append(map, [lineno |-> lineno, msgs |-> <<issue>>])

\* successive add_issue_to_list calls, entries being <<lineno, issue>> pairs
RECURSIVE AddAll(_, _)
AddAll(map, entries) ==
    IF entries = <<>> THEN map
    ELSE AddAll(add_issue_to_list(map, entries[1][1], entries[1][2]),
                Tail(entries))

\* A get_line_issues that looks one line too far.
get_line_issues_off_by_one(map, line_index_) ==
    IF line_index_ + 1 \in Keys(map)
    THEN (CHOOSE e \in Range(map) : e.lineno = line_index_ + 1).msgs
    ELSE <<>>

\* dict.get(line_index, None); the handler logs nothing for None, which is
\* rendered here as the empty list
get_line_issues(map, line_index_) ==
    IF line_index_ \in Keys(map)
    THEN (CHOOSE e \in Range(map) : e.lineno = line_index_).msgs
    ELSE <<>>

\* print_issues: one printed line 'Line N: message' per message, the keys in
\* the dict's order and the messages of a key in the list's order
RECURSIVE print_issues(_)
print_issues(map) ==
    IF map = <<>> THEN <<>>
    ELSE [i \in 1..Len(map[1].msgs) |->
             [line |-> map[1].lineno, issue |-> map[1].msgs[i]]]
         \o print_issues(Tail(map))

\* the add_issue_to_list calls of visit_FunctionDef, in order
FunctionDefEntries(node) ==
    LET stores == SelectSeq(walk(node),
                      LAMBDA n : n.kind = "Name" /\ n.ctx = "Store")
    IN <<<<node.lineno, invalid_function_name(node.name)>>>>
       \o [i \in 1..Len(node.args) |->
              <<node.lineno, invalid_arg_var_names(node.args[i].arg, NoName)>>]
       \o [i \in 1..Len(stores) |->
              <<stores[i].lineno, invalid_arg_var_names(NoName, stores[i].name)>>]
       \o <<<<node.lineno, is_mutable(node.defaults)>>>>

\* The interpreter raises RecursionError when a call would make the stack
\* deeper than sys.getrecursionlimit() frames, the frame of the main block
\* being the first.
RecursionLimit == 1000

\* the frames below the call self.ast_analyzer.visit(tree): the main block
\* and analyze_file
MainFrames == 2

\* The frames a node's visit stacks up before its generic_visit is called:
\* NodeVisitor.visit, and for a kind with a visit_ method of its own
\* (visit_ClassDef, visit_FunctionDef, NodeVisitor.visit_Constant) that
\* method; for nested UnaryOps, visit and generic_visit of each but the
\* innermost, and the innermost's visit.  There is no
\* visit_AsyncFunctionDef.
EnterFrames(node) ==
    IF node.kind \in {"ClassDef", "FunctionDef", "Constant"} THEN 2
    ELSE 2 * node.reps - 1

\* The state of a walk: the map so far, and whether RecursionError was
\* raised.  The helpers the visit_ methods call are a few frames deep and
\* declarations nest to the depth the indentation allows, far from the
\* limit, so that only the recursion of the walk itself counts here.
Walk(map, raised) == [map |-> map, raised |-> raised]

RECURSIVE visit(_, _, _), generic_visit(_, _, _), VisitEach(_, _, _)

\* depth is the depth of the frame of visit_ClassDef
visit_ClassDef(node, st, depth) ==
    generic_visit(node,
        Walk(add_issue_to_list(st.map, node.lineno,
                               invalid_classname(node.name)), FALSE),
        depth)

\* depth is the depth of the frame of visit_FunctionDef
visit_FunctionDef(node, st, depth) ==
    generic_visit(node, Walk(AddAll(st.map, FunctionDefEntries(node)), FALSE),
                  depth)

\* NodeVisitor.visit, called by a frame at the given depth: dispatch on the
\* node's class
visit(node, st, depth) ==
    IF depth + EnterFrames(node) > RecursionLimit THEN Walk(st.map, TRUE)
    ELSE CASE node.kind = "ClassDef" ->
                 visit_ClassDef(node, st, depth + EnterFrames(node))
           [] node.kind = "FunctionDef" ->
                 visit_FunctionDef(node, st, depth + EnterFrames(node))
           [] OTHER -> generic_visit(node, st, depth + EnterFrames(node))

\* the loop of generic_visit over the children; an exception ends it
VisitEach(nodes, st, depth) ==
    IF nodes = <<>> \/ st.raised THEN st
    ELSE VisitEach(Tail(nodes), visit(Head(nodes), st, depth), depth)

\* NodeVisitor.generic_visit, called by a frame at the given depth: its own
\* frame, the frame of the generator iter_fields on top of it, and the visit
\* of every child in order
generic_visit(node, st, depth) ==
    IF depth + 2 > RecursionLimit THEN Walk(st.map, TRUE)
    ELSE VisitEach(iter_child_nodes(node), st, depth + 1)

(***************************************************************************)
(* Files.  A file is a sequence of physical lines, each ending in "\n".    *)
(* The lines come from a small catalogue of complete top-level statements, *)
(* so that the tree ast.parse builds for a file is known line by line.     *)
(***************************************************************************)
BlankLine == <<>>                                             \* ""
SpaceLine == Str(<<" ">>)                                          \* " "
CleanLine == Str(<<"x">>)                                          \* "x"
LexLine == Str(<<"x", ";", "#">>)                                  \* "x;#"
DefLine == Str(<<"d","e","f"," "," ","F","(","A",")",":"," ",
                 "X"," ","="," ","1",";">>)                        \* "def  F(A): X = 1;"
ClassLine == Str(<<"c","l","a","s","s"," ","a",":"," ",
                   "p","a","s","s">>)                              \* "class a: pass"
BadLine == Str(<<"(">>)                                            \* "("

LineCatalogue ==
    {BlankLine, SpaceLine, CleanLine, LexLine, DefLine, ClassLine, BadLine}

Repeat(c, n) == [i \in 1..n |-> c]

\* "x = " and k minus signs and "1": a valid assignment whose value is k
\* unary operations nested in one another
NestPrefix == Str(<<"x", " ", "=", " ">>)
NestLine(k) == NestPrefix \o Repeat(Ord("-"), k) \o Str(<<"1">>)

\* the deepest nesting of NestLine the walk of analyze_file gets through,
\* the assignment being a top-level statement
OkNest == (RecursionLimit - MainFrames - 8) \div 2

Seqs(S, n) == UNION {[1..k -> S] : k \in 0..n}

\* ast.parse on a top-level NestLine: the parser gives up with MemoryError
\* beyond MaxParserNest operations, and the conversion of the parsed
\* expression to ast objects raises RecursionError beyond MaxBuildNest
MaxParserNest == 5967
MaxBuildNest == 2985

\* files with a deeply nested last line
DeepFiles ==
    {<<LexLine, NestLine(OkNest)>>,
     <<LexLine, NestLine(OkNest + 1)>>,
     <<DefLine, NestLine(MaxNest)>>,
     <<LexLine, NestLine(MaxBuildNest)>>,
     <<LexLine, NestLine(MaxBuildNest + 1)>>,
     <<LexLine, NestLine(MaxParserNest + 1)>>,
     <<BadLine, NestLine(MaxParserNest)>>}

FileTexts ==
    {[i \in 1..Len(f) |-> f[i] \o Str(<<"\n">>)] :
        f \in Seqs(LineCatalogue, MaxLines) \cup DeepFiles}

IsNestLine(line) ==
    /\ Len(line) > Len(NestPrefix) + 1
    /\ line = NestLine(Len(line) - Len(NestPrefix) - 1)

\* line.rstrip('\n')
StripNewline(line) == RStripChars(line, {Ord("\n")})

\* the statement ast.parse builds from one catalogue line; none for a line
\* without tokens
ParseLine(line, lineno) ==
    CASE line = CleanLine -> <<ExprStmt(Name(Str(<<"x">>), "Load", lineno), lineno)>>
      [] line = LexLine -> <<ExprStmt(Name(Str(<<"x">>), "Load", lineno), lineno)>>
      [] line = DefLine ->
            <<FunctionDef(Str(<<"F">>), <<>>, <<Arg(Str(<<"A">>), lineno)>>, <<>>,
                          <<Assign(<<Name(Str(<<"X">>), "Store", lineno)>>,
                                   Constant(lineno), lineno)>>,
                          lineno)>>
      [] line = ClassLine -> <<ClassDef(Str(<<"a">>), <<Pass(lineno)>>, lineno)>>
      [] IsNestLine(line) ->
            <<Assign(<<Name(Str(<<"x">>), "Store", lineno)>>,
                     UnaryOps(Len(line) - Len(NestPrefix) - 1,
                              Constant(lineno), lineno),
                     lineno)>>
      [] OTHER -> <<>>

RECURSIVE ParseLines(_, _)
ParseLines(lines, lineno) ==
    IF lineno > Len(lines) THEN <<>>
    ELSE ParseLine(StripNewline(lines[lineno]), lineno)
         \o ParseLines(lines, lineno + 1)

\* ast.parse raises SyntaxError: a "(" of the catalogue is never closed
SyntaxErrorIn(lines) ==
    \E i \in 1..Len(lines) : StripNewline(lines[i]) = BadLine

\* the nesting of a line of file text, 0 for a line that is no NestLine
NestOf(line) ==
    IF IsNestLine(StripNewline(line))
    THEN Len(StripNewline(line)) - Len(NestPrefix) - 1
    ELSE 0

\* the lines of a text that hold a token: a line that is empty or one space
\* gives the tokenizer nothing
HasToken(line) == StripNewline(line) \notin {BlankLine, SpaceLine}
TokenLines(lines) == SelectSeq(lines, HasToken)

\* the first "(" among lines t, Len(t) + 1 when there is none
FirstOpen(t) ==
    Min({i \in 1..Len(t) : StripNewline(t[i]) = BadLine} \cup {Len(t) + 1})

\* After a SyntaxError the parser reads the tokens again to find the error
\* to report. A statement takes ErrorPassDepth more of the parser stack
\* then; the lines from an open parenthesis on are one expression to it,
\* nested in one another, and a line takes no more than MaxLineDepth of the
\* stack besides its own nesting.
ErrorPassDepth == 3
MaxLineDepth == 32

RECURSIVE OpenDepth(_, _)
OpenDepth(t, n) ==
    IF n > Len(t) THEN 0
    ELSE NestOf(t[n]) + MaxLineDepth + OpenDepth(t, n + 1)

\* The exceptions ast.parse(self.file.read()) can raise, none when it
\* returns. The parser runs out of stack (MemoryError) on a statement
\* nested beyond MaxParserNest. With a "(" in the text, which is never
\* closed, the error pass may run out of stack as well: whether it does
\* lies with the interpreter's parser, so both exceptions are possible
\* where the stack it needs may pass the limit.
ParseErrors(lines) ==
    LET t == TokenLines(lines)
        i == FirstOpen(t)
        deepest(limit) == \E n \in 1..(i - 1) : NestOf(t[n]) > limit
    IN  IF deepest(MaxParserNest) THEN {"MemoryError"}
        ELSE IF SyntaxErrorIn(lines)
        THEN IF deepest(MaxParserNest - ErrorPassDepth)
                \/ (OpenDepth(t, i) > MaxParserNest)
             THEN {"SyntaxError", "MemoryError"}
             ELSE {"SyntaxError"}
        ELSE IF deepest(MaxBuildNest) THEN {"RecursionError"}
        ELSE {}

\* ast.parse(self.file.read())
parse(lines) == Module(ParseLines(lines, 1))

NoTree == Module(<<>>)
NoLine == Line(<<>>, 0, 0)

(***************************************************************************)
(* class FileStaticCodeAnalyzer and the main block                         *)
(***************************************************************************)
MsgMark == Str(<<"%", "m", "s", "g", "%">>)

\* One printed line of log_issues: the template
\*     path ': Line ' line_index ': %msg%'
\* with every '%msg%' replaced by the issue.  The digits of the line and the
\* separators hold no '%', so the replacement acts on the path and on the
\* final marker; the printed line is held as its three parts, the path part
\* as printed.
Diag(p, n, issue) ==
    [path |-> Replace(p, MsgMark, Message(issue)), line |-> n, issue |-> issue]

\* log_issues: one printed line per issue, under self.line_index
log_issues(p, n, issues) == [i \in 1..Len(issues) |-> Diag(p, n, issues[i])]

\* A handler that prints the tree issues of a line before its lexical ones.
HandlerOutputTreeFirst(p, line, n, blanks, map) ==
    IF line # <<>>
    THEN log_issues(p, n, get_line_issues(map, n))
         \o log_issues(p, n, get_issues(Line(line, n, blanks)))
    ELSE <<>>

\* what line_analyze_handler prints for one line
HandlerOutput(p, line, n, blanks, map) ==
    IF line # <<>>
    THEN log_issues(p, n, get_issues(Line(line, n, blanks)))
         \o log_issues(p, n, get_line_issues(map, n))
    ELSE <<>>

\* A counter that is never reset.
HandlerBlanksNoReset(line, blanks) ==
    IF line # <<>> THEN blanks ELSE blanks + 1

\* blank_lines_before after line_analyze_handler
HandlerBlanks(line, blanks) ==
    IF line # <<>> THEN 0 ELSE blanks + 1

\* str(path) of the path-th file of the run; the second one is named
\* "%msg%.py"
PathName(p) ==
    IF p = 2 THEN MsgMark \o Str(<<".", "p", "y">>)
    ELSE Repeat(Ord("a"), p) \o Str(<<".", "p", "y">>)

LineInit ==
    /\ in_line = <<>>
    /\ in_blanks = 0
    /\ line_obj = NoLine
    /\ line_issues = <<>>

Init ==
    /\ npaths \in 0..MaxFiles
    /\ path = 0
    /\ pc = "Loop"
    /\ run = "running"
    /\ error = "none"
    /\ file_open = FALSE
    /\ text = <<>>
    /\ file_pos = 0
    /\ tree = NoTree
    /\ line_index = 1
    /\ blank_lines_before = 0
    /\ lineno_to_issues_map = EmptyMap
    /\ output = <<>>
    /\ results = [p \in 1..npaths |-> "pending"]
    /\ LineInit

\* for path in get_py_paths(...): FileStaticCodeAnalyzer(path_str)
Construct ==
    /\ run = "running"
    /\ pc \in {"Loop", "Closed"}
    /\ path < npaths
    /\ path' = path + 1
    /\ pc' = "Unopened"
    /\ line_index' = 1
    /\ blank_lines_before' = 0
    /\ lineno_to_issues_map' = EmptyMap
    /\ output' = <<>>
    /\ text' = <<>>
    /\ file_pos' = 0
    /\ tree' = NoTree
    /\ UNCHANGED <<npaths, run, error, file_open, results, lineVars>>

\* the path sequence is exhausted
Finish ==
    /\ run = "running"
    /\ pc \in {"Loop", "Closed"}
    /\ path = npaths
    /\ run' = "finished"
    /\ UNCHANGED <<npaths, path, pc, error, file_open, text, file_pos, tree,
                   line_index, blank_lines_before, lineno_to_issues_map,
                   output, results, lineVars>>

\* __enter__: open(self.path, 'r') succeeds; the file holds some text
EnterOk ==
    /\ pc = "Unopened"
    /\ \E t \in FileTexts : text' = t
    /\ file_open' = TRUE
    /\ file_pos' = 0
    /\ pc' = "Opened"
    /\ UNCHANGED <<npaths, path, run, error, tree, line_index,
                   blank_lines_before, lineno_to_issues_map, output, results,
                   lineVars>>

\* __enter__: open raises OSError; __exit__ is not called, nothing catches
EnterFail ==
    /\ pc = "Unopened"
    /\ pc' = "Closed"
    /\ error' = "OSError"
    /\ run' = "aborted"
    /\ results' = [results EXCEPT ![path] = "failed"]
    /\ UNCHANGED <<npaths, path, file_open, text, file_pos, tree, line_index,
                   blank_lines_before, lineno_to_issues_map, output, lineVars>>

\* A parse step that goes on to the line scan whatever the text holds.
ParseOkAnyway ==
    /\ pc = "Opened"
    /\ tree' = parse(text)
    /\ file_pos' = Len(text)
    /\ pc' = "Parsed"
    /\ UNCHANGED <<npaths, path, run, error, file_open, text, line_index,
                   blank_lines_before, lineno_to_issues_map, output, results,
                   lineVars>>

\* analyze_file: ast.parse(self.file.read()) returns a tree
ParseOk ==
    /\ pc = "Opened"
    /\ ParseErrors(text) = {}
    /\ tree' = parse(text)
    /\ file_pos' = Len(text)
    /\ pc' = "Parsed"
    /\ UNCHANGED <<npaths, path, run, error, file_open, text, line_index,
                   blank_lines_before, lineno_to_issues_map, output, results,
                   lineVars>>

\* analyze_file: ast.parse raises; __exit__ closes the file and returns
\* False, the exception leaves the main block
ParseFail ==
    /\ pc = "Opened"
    /\ ParseErrors(text) # {}
    /\ file_pos' = Len(text)
    /\ file_open' = FALSE
    /\ pc' = "Closed"
    /\ error' \in ParseErrors(text)
    /\ run' = "aborted"
    /\ results' = [results EXCEPT ![path] = "failed"]
    /\ UNCHANGED <<npaths, path, text, tree, line_index, blank_lines_before,
                   lineno_to_issues_map, output, lineVars>>

\* the walk analyze_file starts on the parsed tree
TreeWalk == visit(tree, Walk(lineno_to_issues_map, FALSE), MainFrames)

\* analyze_file: self.ast_analyzer.visit(tree) raises RecursionError;
\* __exit__ closes the file and returns False, the exception leaves the main
\* block
VisitFail ==
    /\ pc = "Parsed"
    /\ TreeWalk.raised
    /\ lineno_to_issues_map' = TreeWalk.map
    /\ file_open' = FALSE
    /\ pc' = "Closed"
    /\ error' = "RecursionError"
    /\ run' = "aborted"
    /\ results' = [results EXCEPT ![path] = "failed"]
    /\ UNCHANGED <<npaths, path, text, file_pos, tree, line_index,
                   blank_lines_before, output, lineVars>>

\* analyze_file: self.ast_analyzer.visit(tree); self.file.seek(0)
VisitTree ==
    /\ pc = "Parsed"
    /\ ~TreeWalk.raised
    /\ lineno_to_issues_map' = TreeWalk.map
    /\ file_pos' = 0
    /\ pc' = "Streaming"
    /\ UNCHANGED <<npaths, path, run, error, file_open, text, tree,
                   line_index, blank_lines_before, output, results, lineVars>>

\* analyze_file: one turn of the loop over the file's lines
LineStep ==
    /\ pc = "Streaming"
    /\ file_pos < Len(text)
    /\ LET line == StripNewline(text[file_pos + 1])
       IN /\ output' = output \o HandlerOutput(PathName(path), line,
                                    line_index, blank_lines_before,
                                    lineno_to_issues_map)
          /\ blank_lines_before' = HandlerBlanks(line, blank_lines_before)
    /\ line_index' = line_index + 1
    /\ file_pos' = file_pos + 1
    /\ UNCHANGED <<npaths, path, pc, run, error, file_open, text, tree,
                   lineno_to_issues_map, results, lineVars>>

\* analyze_file returns at the end of the file; __exit__ closes it
Exit ==
    /\ pc = "Streaming"
    /\ file_pos = Len(text)
    /\ file_open' = FALSE
    /\ pc' = "Closed"
    /\ results' = [results EXCEPT ![path] = "analyzed"]
    /\ UNCHANGED <<npaths, path, run, error, text, file_pos, tree, line_index,
                   blank_lines_before, lineno_to_issues_map, output, lineVars>>

Next ==
    \/ Construct
    \/ Finish
    \/ EnterOk
    \/ EnterFail
    \/ ParseOk
    \/ ParseFail
    \/ VisitTree
    \/ VisitFail
    \/ LineStep
    \/ Exit

Spec == Init /\ [][Next]_vars

(***************************************************************************)
(* The lexical checks on their own: a Line is built from a line of text    *)
(* and a count of preceding blank lines, then asked for its issues.        *)
(***************************************************************************)
\* x ; space # ' and the no-break space U+00A0
FreeAlphabet == {Ord("x"), Ord(";"), Ord(" "), Ord("#"), Ord("'"), 160}

CodeParts ==
    {<<>>,
     Str(<<"x">>),
     Str(<<"x", " ", "=", " ", "1", ";">>),                        \* "x = 1;"
     Str(<<"x", " ", "=", " ", "1">>),                             \* "x = 1"
     Str(<<"d","e","f"," ","f","(",")",":">>),                     \* "def f():"
     Str(<<"d","e","f"," "," ","f","(",")",":">>),                 \* "def  f():"
     Str(<<"c","l","a","s","s"," ","\t","A",":">>),                \* "class \tA:"
     Str(<<"d","e","f","("," ","c","l","a","s","s"," "," ","A">>), \* "def( class  A"
     Str(<<"s"," ","="," ","'","#","'">>),                         \* "s = '#'"
     Str(<<"x", ";", "\f">>),                                      \* "x;\f"
     Str(<<"x", ";">>) \o <<11>>,                                 \* "x;" and U+000B
     Str(<<"x", ";">>) \o <<160>>,                                \* "x;" and U+00A0
     KwDef \o <<160, 8195>> \o Str(<<"f">>),                       \* "def", U+00A0, U+2003, "f"
     Str(<<"d","e","f"," "," ">>) \o <<233>> \o Str(<<"(",")",":">>), \* "def  \u00e9():"
     Str(<<"d","e","f"," ","\f","f","(",")",":">>),                \* "def \ff():"
     Repeat(Ord("a"), MaxLineLength),
     Repeat(Ord("a"), MaxLineLength + 1)}

CommentParts ==
    {<<>>,
     Str(<<"#">>),
     Str(<<"#", " ", "t", "o", "d", "o", " ", "f", "i", "x">>),    \* "# todo fix"
     Str(<<"#", " ", "x", " ", "=", " ", "1">>),                   \* "# x = 1"
     Str(<<"#", " ", "T", "o", "D", "O", ";">>),                   \* "# ToDO;"
     Str(<<"#", "t", "o", " ", "d", "o">>),                        \* "#to do"
     Str(<<"#", "a", "\n", "b">>),                                 \* "#a\nb"
     Str(<<"#", " ", "c", "\n">>),
     Str(<<"#", " ", "t", "o", "d", "o", " ">>) \o <<223>>}      \* "# todo \u00df"                                 \* "# c\n"

LineInputs ==
    Seqs(FreeAlphabet, MaxLen)
    \cup {Repeat(Ord(" "), k) \o c \o Repeat(Ord(" "), g) \o m :
            k \in 0..MaxIndent, c \in CodeParts, g \in 0..MaxGap,
            m \in CommentParts}

FileIdle ==
    /\ npaths = 0
    /\ path = 0
    /\ run = "running"
    /\ error = "none"
    /\ file_open = FALSE
    /\ text = <<>>
    /\ file_pos = 0
    /\ line_index = 1
    /\ blank_lines_before = 0
    /\ output = <<>>
    /\ results = <<>>

LineSpecInit ==
    /\ FileIdle
    /\ pc = "LineStart"
    /\ tree = NoTree
    /\ lineno_to_issues_map = EmptyMap
    /\ in_line \in LineInputs
    /\ in_blanks \in 0..MaxBlanks
    /\ line_obj = NoLine
    /\ line_issues = <<>>

\* Line(line, 1, preceding_blank_lines)
NewLine ==
    /\ pc = "LineStart"
    /\ line_obj' = Line(in_line, 1, in_blanks)
    /\ pc' = "LineBuilt"
    /\ UNCHANGED <<npaths, path, run, error, file_open, text, file_pos, tree,
                   line_index, blank_lines_before, lineno_to_issues_map,
                   output, results, in_line, in_blanks, line_issues>>

\* line_obj.get_issues()
CallGetIssues ==
    /\ pc = "LineBuilt"
    /\ line_issues' = get_issues(line_obj)
    /\ pc' = "LineChecked"
    /\ UNCHANGED <<npaths, path, run, error, file_open, text, file_pos, tree,
                   line_index, blank_lines_before, lineno_to_issues_map,
                   output, results, in_line, in_blanks, line_obj>>

LineNext == NewLine \/ CallGetIssues

SpecLine == LineSpecInit /\ [][LineNext]_vars

(***************************************************************************)
(* The tree checks on their own: one walk of the analyzer over a tree.     *)
(* The trees hold one function declaration, with def or async def, at top  *)
(* level or as a method, with its parameters on the declaration's line or  *)
(* on the line after it, at most one keyword-only parameter, and a body    *)
(* that is a pass, an assignment or a nested function.                     *)
(***************************************************************************)
FuncNames == {Str(<<"f">>), Str(<<"F">>)}
ParamNames == {Str(<<"a">>), Str(<<"B">>)}
DefaultKinds == {"Constant", "Dict", "List", "Set"}
FunctionKinds == {"FunctionDef", "AsyncFunctionDef"}

\* the keyword-only part of a declaration: none, or the parameter k without
\* default, with the default 1 or with the default {}
KwOnlyDefaults == {<<>>, <<"None">>, <<"Constant">>, <<"Dict">>}

ArgList(names, lineno) == [i \in 1..Len(names) |-> Arg(names[i], lineno)]

FuncBodies(l) ==
    {<<Pass(l)>>,
     <<Assign(<<Name(Str(<<"X">>), "Store", l)>>, Constant(l), l)>>,
     <<Assign(<<Name(Str(<<"X">>), "Store", l)>>,
              UnaryOps(MaxNest, Constant(l), l), l)>>,
     <<Assign(<<Name(Str(<<"y">>), "Store", l)>>, Constant(l), l),
       FunctionDef(Str(<<"G">>), <<>>, ArgList(<<Str(<<"B">>)>>, l + 1), <<"List">>,
                   <<Assign(<<Name(Str(<<"Y">>), "Store", l + 2)>>,
                            Constant(l + 2), l + 2)>>,
                   l + 1)>>}

\* the tree of one declaration: at top level when cls is empty, else as a
\* method of the class named cls
TreeOf(cls, kind, name, po, ar, off, kw, defaults, body) ==
    LET l == IF cls = <<>> THEN 1 ELSE 2
        fn == Function(kind, name, ArgList(po, l), ArgList(ar, l + off),
                       ArgList([i \in 1..Len(kw) |-> Str(<<"k">>)], l + off),
                       kw, defaults, body, l)
    IN IF cls = <<>> THEN Module(<<fn>>)
       ELSE Module(<<ClassDef(cls, <<fn>>, 1)>>)

TreeSpecInit ==
    /\ FileIdle
    /\ LineInit
    /\ pc = "TreeStart"
    /\ lineno_to_issues_map = EmptyMap
    /\ \E cls \in {<<>>, Str(<<"a">>), Str(<<"A">>)},
          kind \in FunctionKinds,
          name \in FuncNames,
          po \in Seqs(ParamNames, MaxParams),
          ar \in Seqs(ParamNames, MaxParams),
          off \in 0..1,
          kw \in KwOnlyDefaults,
          defaults \in Seqs(DefaultKinds, MaxDefaults) :
            /\ Len(po) + Len(ar) <= MaxParams
            /\ Len(defaults) <= Len(po) + Len(ar)
            /\ \E body \in FuncBodies(IF cls = <<>> THEN 3 ELSE 4) :
                  tree = TreeOf(cls, kind, name, po, ar, off, kw, defaults,
                                body)

\* ASTNodeAnalyzer().visit(tree), called by the main block of a script; it
\* returns, or it raises RecursionError
TreeVisit ==
    /\ pc = "TreeStart"
    /\ LET w == visit(tree, Walk(lineno_to_issues_map, FALSE), 1)
       IN /\ lineno_to_issues_map' = w.map
          /\ pc' = IF w.raised THEN "TreeRaised" ELSE "TreeVisited"
          /\ error' = IF w.raised THEN "RecursionError" ELSE error
    /\ UNCHANGED <<npaths, path, run, file_open, text, file_pos, tree,
                   line_index, blank_lines_before, output, results, lineVars>>

\* print_issues() on the analyzer that has walked the tree
PrintIssues ==
    /\ pc = "TreeVisited"
    /\ output' = output \o print_issues(lineno_to_issues_map)
    /\ pc' = "TreePrinted"
    /\ UNCHANGED <<npaths, path, run, error, file_open, text, file_pos, tree,
                   line_index, blank_lines_before, lineno_to_issues_map,
                   results, lineVars>>

TreeNext == TreeVisit \/ PrintIssues

SpecTree == TreeSpecInit /\ [][TreeNext]_vars

(***************************************************************************)
(* Vocabulary of the properties.                                           *)
(***************************************************************************)
LexCodes == <<"S001", "S002", "S003", "S004", "S005", "S006", "S007">>
TreeCodes == {"S008", "S009", "S010", "S011", "S012"}

IsLexIssue(issue) == issue.code \in Range(LexCodes)
IsTreeIssue(issue) == issue.code \in TreeCodes

CountCode(issues, code) ==
    Cardinality({i \in 1..Len(issues) : issues[i].code = code})

\* the issues printed under line n, in print order
IssuesAt(n) ==
    LET at == SelectSeq(output, LAMBDA d : d.line = n)
    IN [i \in 1..Len(at) |-> at[i].issue]

IsBlankAt(n) == text[n] = Str(<<"\n">>)

\* number of consecutive blank lines that end at line k of the file
BlankRun(k) ==
    CHOOSE c \in 0..k :
        /\ \A j \in (k - c + 1)..k : IsBlankAt(j)
        /\ (c < k => ~IsBlankAt(k - c))

\* the line scan of the current file has begun, and has not failed
Scanning ==
    \/ pc = "Streaming"
    \/ pc = "Closed" /\ path >= 1 /\ results[path] = "analyzed"

Analyzed == pc = "Closed" /\ path >= 1 /\ results[path] = "analyzed"

IssuesOfMap(n) == get_line_issues(lineno_to_issues_map, n)

(***************************************************************************)
(* Properties of the file analysis.                                        *)
(***************************************************************************)

\* C1: the diagnostics of a file come out with non-decreasing line numbers,
\* the line index is one more than the number of lines read and is beyond
\* every line already printed, and on one line no lexical issue follows a
\* tree issue.
C1_ReportOrdered ==
    /\ \A i, j \in 1..Len(output) :
          i < j =>
            /\ output[i].line <= output[j].line
            /\ output[i].line = output[j].line
                  => ~(IsTreeIssue(output[i].issue) /\ IsLexIssue(output[j].issue))
    /\ Scanning =>
          /\ line_index = file_pos + 1
          /\ \A i \in 1..Len(output) : output[i].line < line_index

\* a finished report with a line that has both kinds of issue, and a later
\* line with an issue
C1_Witness ==
    /\ Analyzed
    /\ \E i, j, k \in 1..Len(output) :
          /\ i < j /\ j < k
          /\ output[i].line = output[j].line
          /\ IsLexIssue(output[i].issue) /\ IsTreeIssue(output[j].issue)
          /\ output[k].line > output[j].line

\* C2: for a file whose text does not parse nothing is ever printed and the
\* analysis ends with the exception of ast.parse surfaced; whenever a line
\* has been read by the scan, the map already holds the whole tree walk of
\* the parsed text.
C2_NoPartialReport ==
    /\ (pc \in {"Opened", "Parsed", "Streaming", "Closed"}
          /\ ParseErrors(text) # {})
         => /\ output = <<>>
            /\ pc \in {"Opened", "Closed"}
            /\ pc = "Closed" => error \in ParseErrors(text)
                                /\ results[path] = "failed"
    /\ (output # <<>> \/ (pc = "Streaming" /\ file_pos > 0))
         => /\ Scanning
            /\ tree = parse(text)
            /\ lineno_to_issues_map
                  = visit(tree, Walk(EmptyMap, FALSE), MainFrames).map

\* a failed parse of a text whose first lines would each have had issues
C2_Witness ==
    /\ pc = "Closed"
    /\ error = "SyntaxError"
    /\ Len(text) = 3
    /\ text[1] = LexLine \o Str(<<"\n">>)
    /\ text[2] = DefLine \o Str(<<"\n">>)
    /\ text[3] = BadLine \o Str(<<"\n">>)
    /\ output = <<>>

\* C3: when the run has ended, no path is left unanalyzed behind a file that
\* failed: every path after a failed one was analyzed, or failed itself.
C3_BatchContinues ==
    run \in {"finished", "aborted"} =>
        \A p, q \in 1..npaths :
            (results[p] = "failed" /\ p < q) => results[q] # "pending"

\* C4: during the scan the counter is the number of consecutive blank lines
\* just before the next line; of the lines read so far, a blank one has no
\* diagnostic and a non-blank one has S006 exactly when more than two
\* consecutive blank lines precede it.
C4_BlankCounter ==
    Scanning =>
        /\ blank_lines_before = BlankRun(file_pos)
        /\ \A n \in 1..file_pos :
              IF IsBlankAt(n)
              THEN IssuesAt(n) = <<>>
              ELSE CountCode(IssuesAt(n), "S006")
                     = (IF BlankRun(n - 1) > MaxBlankLines THEN 1 ELSE 0)

\* a non-blank line after three blank ones has been given S006
C4_Witness ==
    /\ Scanning
    /\ \E n \in 4..file_pos :
          /\ IsBlankAt(n - 1) /\ IsBlankAt(n - 2) /\ IsBlankAt(n - 3)
          /\ ~IsBlankAt(n)
          /\ CountCode(IssuesAt(n), "S006") = 1

\* C5: when the analysis of a file has completed, the tree issues printed
\* under each line are exactly the issues the map holds for that line, in
\* the map's order, and every line of the map is a line of the report.
C5_TreeIssuesReported ==
    Analyzed =>
        /\ \A n \in Keys(lineno_to_issues_map) :
              SelectSeq(IssuesAt(n), IsTreeIssue) = IssuesOfMap(n)
        /\ \A i \in 1..Len(output) :
              IsTreeIssue(output[i].issue)
                 => output[i].line \in Keys(lineno_to_issues_map)

\* a finished report of a file whose map has issues on two lines, one of
\* them behind a blank line
C5_Witness ==
    /\ Analyzed
    /\ Cardinality(Keys(lineno_to_issues_map)) >= 2
    /\ \E n \in Keys(lineno_to_issues_map) :
          /\ n > 1
          /\ IsBlankAt(n - 1)
          /\ Len(IssuesOfMap(n)) >= 2

LifecycleSteps ==
    {<<"Loop", "Unopened">>, <<"Closed", "Unopened">>,
     <<"Unopened", "Opened">>, <<"Unopened", "Closed">>,
     <<"Opened", "Parsed">>, <<"Opened", "Closed">>,
     <<"Parsed", "Streaming">>, <<"Streaming", "Closed">>}

\* C6: a file moves Unopened, Opened, Parsed, Streaming, Closed, a failure
\* while opening or parsing leading straight to Closed with the error
\* surfaced; no handle is open once a file is Closed or the run has ended;
\* after a failure nothing more happens to that file.
C6_Lifecycle ==
    /\ []((pc = "Closed" \/ run \in {"finished", "aborted"}) => ~file_open)
    /\ [][pc' # pc => <<pc, pc'>> \in LifecycleSteps]_vars
    /\ [][(pc \in {"Unopened", "Opened"} /\ pc' = "Closed")
             => (error' # "none" /\ results'[path] = "failed")]_vars
    /\ [][(path >= 1 /\ results[path] = "failed") => UNCHANGED vars]_vars

(***************************************************************************)
(* Properties of the tree walk.                                            *)
(***************************************************************************)
\* the walk has returned
Walked == pc \in {"TreeVisited", "TreePrinted"}

FunctionDefsOf(t) ==
    {n \in Range(walk(t)) : n.kind = "FunctionDef"}

\* the callable declarations of a tree: def and async def
CallablesOf(t) ==
    {n \in Range(walk(t)) : n.kind \in {"FunctionDef", "AsyncFunctionDef"}}

\* the kinds of all default-value expressions of a declaration, those of
\* its keyword-only parameters included
DefaultsOf(fn) == fn.defaults \o fn.kw_defaults

HasMutableDefault(fn) ==
    \E i \in 1..Len(DefaultsOf(fn)) :
        DefaultsOf(fn)[i] \in {"Dict", "List", "Set"}

\* C7: after the walk, the line of every callable declaration holds S012
\* once if one of the declaration's default values is a dict, list or set
\* literal and not at all otherwise, and no other line holds S012.
C7_MutableDefaultOnce ==
    Walked =>
        /\ \A fn \in CallablesOf(tree) :
              CountCode(IssuesOfMap(fn.lineno), "S012")
                 = (IF HasMutableDefault(fn) THEN 1 ELSE 0)
        /\ \A n \in Keys(lineno_to_issues_map) :
              CountCode(IssuesOfMap(n), "S012") > 0
                 => \E fn \in CallablesOf(tree) : fn.lineno = n

\* the S010 issues the parameters ps call for, in parameter order
ExpectedArgIssues(ps) ==
    LET bad == SelectSeq(ps, LAMBDA a : ~is_snakecase(a.arg))
    IN [i \in 1..Len(bad) |-> Issue("S010", bad[i].arg)]

\* C8: after the walk, the line of every function declaration holds one
\* S010 for each of its positional parameters, positional-only ones
\* included, whose name is not snake_case, in parameter order, and no line
\* other than a declaration's holds S010.
C8_EveryPositionalParameter ==
    Walked =>
        /\ \A fn \in FunctionDefsOf(tree) :
              SelectSeq(IssuesOfMap(fn.lineno), LAMBDA x : x.code = "S010")
                 = ExpectedArgIssues(fn.posonlyargs \o fn.args)
        /\ \A n \in Keys(lineno_to_issues_map) :
              CountCode(IssuesOfMap(n), "S010") > 0
                 => \E fn \in FunctionDefsOf(tree) : fn.lineno = n

\* the positions in walk(t) of the names in store context that lie in the
\* subtree of a function declaration, are on line n and are not snake_case
BadStoresAt(t, n) ==
    LET w == walk(t)
    IN {i \in 1..Len(w) :
          /\ w[i].kind = "Name"
          /\ w[i].ctx = "Store"
          /\ w[i].lineno = n
          /\ ~is_snakecase(w[i].name)
          /\ \E fn \in FunctionDefsOf(t) : w[i] \in Range(walk(fn))}

LinesOf(t) == {walk(t)[i].lineno : i \in 1..Len(walk(t))}

\* C11: after the walk, every line holds one S011 for each name in store
\* context on that line that lies inside a function declaration and is not
\* snake_case, whatever the number of functions around it, and each S011
\* names such a name of its line.
C11_OneIssuePerStore ==
    Walked =>
        \A n \in LinesOf(tree) \cup Keys(lineno_to_issues_map) :
            /\ CountCode(IssuesOfMap(n), "S011")
                  = Cardinality(BadStoresAt(tree, n))
            /\ \A k \in 1..Len(IssuesOfMap(n)) :
                  IssuesOfMap(n)[k].code = "S011"
                     => \E i \in BadStoresAt(tree, n) :
                           walk(tree)[i].name = IssuesOfMap(n)[k].arg

(***************************************************************************)
(* Properties of the lexical checks.                                       *)
(***************************************************************************)
IsPrefix(p, s) == Len(p) <= Len(s) /\ SubSeq(s, 1, Len(p)) = p
IsSuffix(p, s) ==
    Len(p) <= Len(s) /\ SubSeq(s, Len(s) - Len(p) + 1, Len(s)) = p

\* the text before the comment marker, right-trimmed
CodeBeforeMarker(line) == RStrip(SubSeq(line, 1, CommentMatch(line) - 1))

\* C9: the code part of a Line is a prefix of the line, the comment part a
\* suffix, the gap the number of characters between the two; and when the
\* text before the comment marker is not empty after right-trimming, the
\* code part is that text.
C9_SplitReconstructs ==
    pc \in {"LineBuilt", "LineChecked"} =>
        /\ IsPrefix(line_obj.code_part, in_line)
        /\ IsSuffix(line_obj.comment_part, in_line)
        /\ line_obj.code_comment_spaces =
              Len(in_line) - Len(line_obj.code_part) - Len(line_obj.comment_part)
        /\ line_obj.code_comment_spaces >= 0
        /\ (CommentMatch(in_line) > 0 /\ CodeBeforeMarker(in_line) # <<>>)
              => line_obj.code_part = CodeBeforeMarker(in_line)

\* The segments of a line as the checks' conditions name them, read off the
\* line: the text before the comment marker right-trimmed (the whole line
\* when there is no marker), the text from the marker onward, and the
\* number of characters between the two.
CodeSegment(line) ==
    IF CommentMatch(line) = 0 THEN RStrip(line) ELSE CodeBeforeMarker(line)

CommentSegment(line) ==
    IF CommentMatch(line) = 0 THEN <<>>
    ELSE SubSeq(line, CommentMatch(line), Len(line))

SegmentGap(line) ==
    Len(line) - Len(CodeSegment(line)) - Len(CommentSegment(line))

ContainsTodo(comment) ==
    \E i \in 1..(Len(comment) - 3) :
        /\ comment[i] \in {Ord("t"), Ord("T")}
        /\ comment[i+1] \in {Ord("o"), Ord("O")}
        /\ comment[i+2] \in {Ord("d"), Ord("D")}
        /\ comment[i+3] \in {Ord("o"), Ord("O")}

LeadingSpaces(line) ==
    Cardinality({i \in 1..Len(line) : \A j \in 1..i : line[j] = Ord(" ")})

\* def or class somewhere in the code, then two whitespace characters or
\* more, then the declared name
WideKeyword(code) ==
    \E i \in 1..Len(code) :
        \E kw \in {KwDef, KwClass} :
            LET after == i + Len(kw)
            IN /\ after + 2 <= Len(code)
               /\ SubSeq(code, i, after - 1) = kw
               /\ \E n \in (after + 2)..Len(code) :
                     /\ \A k \in after..(n - 1) : code[k] \in Whitespace
                     /\ IsWord(code[n])

\* the condition of the check that reports code, on a line with blanks
\* blank lines before it
CheckHolds(code, line, blanks) ==
    CASE code = "S001" -> Len(line) > MaxLineLength
      [] code = "S002" -> LeadingSpaces(line) % IndentUnit # 0
      [] code = "S003" -> EndsWith(CodeSegment(line), Ord(";"))
      [] code = "S004" -> /\ CodeSegment(line) # <<>>
                          /\ CommentSegment(line) # <<>>
                          /\ SegmentGap(line) < MinCommentSpaces
      [] code = "S005" -> ContainsTodo(CommentSegment(line))
      [] code = "S006" -> blanks > MaxBlankLines
      [] code = "S007" -> WideKeyword(CodeSegment(line))

CodeRank(code) == CHOOSE i \in 1..Len(LexCodes) : LexCodes[i] = code

\* a line of a file holds no line feed
IsFileLine(line) == line # <<>> /\ Ord("\n") \notin Range(line)

\* C10: for a non-blank line get_issues returns only lexical issues, the
\* issue of each of the seven checks once if its condition holds on the
\* line and not at all otherwise, in the order S001 .. S007; a line whose
\* code ends with a semicolon, followed by two spaces and a comment that
\* contains "todo", yields S003 and S005 and not S004.
C10_IndependentChecks ==
    (pc = "LineChecked" /\ IsFileLine(in_line)) =>
        /\ \A i \in 1..Len(line_issues) : IsLexIssue(line_issues[i])
        /\ \A c \in Range(LexCodes) :
              CountCode(line_issues, c)
                 = (IF CheckHolds(c, in_line, in_blanks) THEN 1 ELSE 0)
        /\ \A i, j \in 1..Len(line_issues) :
              i < j => CodeRank(line_issues[i].code) < CodeRank(line_issues[j].code)
        /\ ( /\ EndsWith(CodeSegment(in_line), Ord(";"))
             /\ SegmentGap(in_line) = 2
             /\ ContainsTodo(CommentSegment(in_line)) )
              => /\ CountCode(line_issues, "S003") = 1
                 /\ CountCode(line_issues, "S005") = 1
                 /\ CountCode(line_issues, "S004") = 0
====
